---- MODULE Spec2Model ----
(***************************************************************************)
(* Temporal buffering, alignment and windowing of the activity classifier  *)
(* nodes: the InputBuffer of uho_activity_detector.py (frames, hand poses, *)
(* object detections, get_window, clear_before) and the runtime loop of    *)
(* activity_classifier_tcn.py (ingestion callbacks, window criteria,       *)
(* eviction, processed/extracted timestamps).                              *)
(*                                                                         *)
(* Timestamps are nanosecond integers (time_to_int); the model draws them  *)
(* from 0..MaxTime.  A buffered message is a record [t, p]: t is the key   *)
(* the buffer reads (header.stamp of a frame or pose, source_stamp of a    *)
(* detection set), p stands for the rest of the message.                   *)
(***************************************************************************)
EXTENDS Integers, Sequences, FiniteSets, TLC

\* ------------------------------------------------------------- bounds
MaxTime == 2
MaxItems == 3
MaxTol == 1
MaxWindowSize == 3
MaxRetention == 1
MaxDataset == 4

Times == 0..MaxTime
Payloads == {0, 1}
WindowSizes == 1..MaxWindowSize
Hands == {"Left", "Right", "Other"}

\* Python's None, for an Optional[int] and for an Optional message.
None == -1
NoMsg == [t |-> -1, p |-> -1]

Msg(t, p) == [t |-> t, p |-> p]

VARIABLES
    \* InputBuffer
    hand_msg_tolerance_nsec,
    frames,
    hand_pose_left,
    hand_pose_right,
    obj_dets,
    \* the last public buffer call, its argument and what it returned
    op,
    arg,
    \* msg.hand of the message of a queue_hand_pose call
    msg_hand,
    ret,
    window,
    window_dets,
    \* bookkeeping of the last call: how many messages clear_before popped, and
    \* whether the call repeats the call before it (same call, same argument)
    npopped,
    repeat,
    \* ActivityClassifierTCN: configuration
    window_size,
    buffer_max_size_nsec,
    window_lead_with_objects,
    coco_input,
    \* ActivityClassifierTCN: runtime state
    rt_active,
    rt_awake_evt,
    pc,
    window_time_ns,
    window_extracted_time_ns,
    window_processed_time_ns,
    \* bookkeeping of the runtime loop: what the criteria said of the window in
    \* hand, and the leading time of the last window that passed them
    verdict,
    accepted_time_ns,
    \* bookkeeping of the runtime loop: the criteria the last check called, in
    \* the order of the calls, and whether it called _save_image_to_coco
    criteria_log,
    \* ActivityClassifierTCN: the COCO loading thread (position, tuple in hand)
    coco_pc,
    coco_index,
    \* ActivityClassifierTCN: memoization of _process_window (keys of the maps,
    \* and their id heaps as ascending sequences)
    memo_preproc_input,
    memo_preproc_input_id_heap,
    memo_preproc_input_poses,
    memo_preproc_input_id_heap_poses,
    memo_objects_to_feats,
    memo_objects_to_feats_id_heap,
    queued_pose_memo,
    \* bookkeeping: the detection ids preprocessed so far, and those preprocessed
    \* by the last _process_window (with the ones that had been preprocessed before)
    preproc_computed,
    preproc_new,
    \* bookkeeping: per stream, how many items at its tail were queued after the
    \* loop last extracted a window
    unseen,
    \* the buffer's RLock: the thread that owns it and how often it acquired it
    state_lock,
    \* a thread that holds the buffer over several calls: its position and the
    \* latest time it read
    hold_pc,
    hold_latest,
    \* a callback taken step by step: its position and its message (late: it
    \* was queued when the runtime thread had ended)
    cb_pc,
    cb_arg

bufvars == <<hand_msg_tolerance_nsec, frames, hand_pose_left, hand_pose_right, obj_dets>>
callvars == <<op, arg, ret, window_dets, npopped, repeat, msg_hand>>
cfgvars == <<window_size, buffer_max_size_nsec, window_lead_with_objects, coco_input>>
rtvars == <<rt_active, rt_awake_evt, pc, window_time_ns, window_extracted_time_ns,
            window_processed_time_ns, verdict, accepted_time_ns>>
cocovars == <<coco_pc, coco_index>>

memovars == <<memo_preproc_input, memo_preproc_input_id_heap, memo_preproc_input_poses,
              memo_preproc_input_id_heap_poses, memo_objects_to_feats,
              memo_objects_to_feats_id_heap, queued_pose_memo, preproc_computed,
              preproc_new>>

threadvars == <<state_lock, hold_pc, hold_latest, cb_pc, cb_arg>>

vars == <<bufvars, callvars, window, cfgvars, rtvars, cocovars, memovars, criteria_log, unseen,
          threadvars>>

\* ------------------------------------------------------------ helpers
Abs(x) == IF x < 0 THEN -x ELSE x

Min2(a, b) == IF a < b THEN a ELSE b

Max2(a, b) == IF a < b THEN b ELSE a

\* list(itertools.islice(reversed(d), n))[::-1]: the last n items, ascending.
LastN(s, n) == SubSeq(s, Max2(1, Len(s) - n + 1), Len(s))

TimesOf(s) == [i \in 1..Len(s) |-> s[i].t]

NumBuffered == Len(frames) + Len(hand_pose_left) + Len(hand_pose_right) + Len(obj_dets)

NoneUnseen == [frames |-> 0, obj_dets |-> 0, hand_pose_left |-> 0, hand_pose_right |-> 0,
               evicted |-> 0]

NoCriteriaLog == [evaluated |-> <<>>, saved |-> FALSE]

EmptyWindow == [frames |-> <<>>, hand_pose_left |-> <<>>,
                hand_pose_right |-> <<>>, obj_dets |-> <<>>]

\* ------------------------------------------------ tolerance join
(***************************************************************************)
(* descending_match_with_tolerance(key_times, values, tol, time_fn): one   *)
(* slot per key time.  Frames are walked from the most recent backwards    *)
(* and the messages are reverse-iterated once: for a frame, messages newer *)
(* than the frame's tolerance are passed over, a message within tolerance  *)
(* is taken when it is closer than the one taken before it (on equal       *)
(* difference the more recent one is kept), and the first message that is  *)
(* more time-distant or out of tolerance ends the frame and is carried to  *)
(* the next (older) frame.  c is the index of the next message to examine; *)
(* 0 when the messages are exhausted.                                      *)
(***************************************************************************)
RECURSIVE ScanFrame(_, _, _, _, _)
ScanFrame(key_time, values, c, tol, best) ==
    IF c = 0
    THEN [slot |-> best, carry |-> 0]
    ELSE LET v == values[c]
             d == Abs(v.t - key_time)
         IN  IF best = NoMsg
             THEN IF v.t > key_time + tol
                  THEN ScanFrame(key_time, values, c - 1, tol, best)
                  ELSE IF d <= tol
                       THEN ScanFrame(key_time, values, c - 1, tol, v)
                       ELSE [slot |-> best, carry |-> c]
             ELSE IF d > tol \/ d > Abs(best.t - key_time)
                  THEN [slot |-> best, carry |-> c]
                  ELSE IF d < Abs(best.t - key_time)
                       THEN ScanFrame(key_time, values, c - 1, tol, v)
                       ELSE ScanFrame(key_time, values, c - 1, tol, best)

RECURSIVE MatchFrom(_, _, _, _, _)
MatchFrom(key_times, values, tol, i, c) ==
    IF i = 0
    THEN <<>>
    ELSE LET r == ScanFrame(key_times[i], values, c, tol, NoMsg)
         IN  Append(MatchFrom(key_times, values, tol, i - 1, r.carry), r.slot)

descending_match_with_tolerance(key_times, values, tol) ==
    MatchFrom(key_times, values, tol, Len(key_times), Len(values))

\* ------------------------------------------------ InputBuffer
\* Variant: the first frames of the deque instead of the last (islice without reversed).
window_frames_from_head(fs, size) == SubSeq(fs, 1, Min2(size, Len(fs)))

\* The window's frames: the last window_size frames, in ascending order.
window_frames_of(fs, size) == LastN(fs, size)

get_window_detections(size) ==
    descending_match_with_tolerance(TimesOf(window_frames_of(frames, size)), obj_dets, 0)

\* Variant: the joins are run against every buffered frame, not the window's.
get_window_all_frame_times(size) ==
    LET wf == window_frames_of(frames, size)
        all_times == TimesOf(frames)
    IN  [frames |-> wf,
         hand_pose_left |-> descending_match_with_tolerance(
             all_times, hand_pose_left, hand_msg_tolerance_nsec),
         hand_pose_right |-> descending_match_with_tolerance(
             all_times, hand_pose_right, hand_msg_tolerance_nsec),
         obj_dets |-> descending_match_with_tolerance(all_times, obj_dets, 0)]

\* Variant: the detections are joined with the hand tolerance + 1 instead of 0.
get_window_dets_with_tolerance(size) ==
    LET wf == window_frames_of(frames, size)
        window_frame_times_ns == TimesOf(wf)
    IN  [frames |-> wf,
         hand_pose_left |-> descending_match_with_tolerance(
             window_frame_times_ns, hand_pose_left, hand_msg_tolerance_nsec),
         hand_pose_right |-> descending_match_with_tolerance(
             window_frame_times_ns, hand_pose_right, hand_msg_tolerance_nsec),
         obj_dets |-> descending_match_with_tolerance(
             window_frame_times_ns, obj_dets, hand_msg_tolerance_nsec + 1)]

\* Variant: the hand poses are joined exactly, the configured tolerance ignored.
get_window_hands_exact(size) ==
    LET wf == window_frames_of(frames, size)
        window_frame_times_ns == TimesOf(wf)
    IN  [frames |-> wf,
         hand_pose_left |-> descending_match_with_tolerance(
             window_frame_times_ns, hand_pose_left, 0),
         hand_pose_right |-> descending_match_with_tolerance(
             window_frame_times_ns, hand_pose_right, 0),
         obj_dets |-> descending_match_with_tolerance(
             window_frame_times_ns, obj_dets, 0)]

\* Variant: the left-hand slots are filled from the right-hand deque.
get_window_hands_swapped(size) ==
    LET wf == window_frames_of(frames, size)
        window_frame_times_ns == TimesOf(wf)
    IN  [frames |-> wf,
         hand_pose_left |-> descending_match_with_tolerance(
             window_frame_times_ns, hand_pose_right, hand_msg_tolerance_nsec),
         hand_pose_right |-> descending_match_with_tolerance(
             window_frame_times_ns, hand_pose_right, hand_msg_tolerance_nsec),
         obj_dets |-> descending_match_with_tolerance(
             window_frame_times_ns, obj_dets, 0)]

get_window(size) ==
    LET wf == window_frames_of(frames, size)
        window_frame_times_ns == TimesOf(wf)
    IN  [frames |-> wf,
         hand_pose_left |-> descending_match_with_tolerance(
             window_frame_times_ns, hand_pose_left, hand_msg_tolerance_nsec),
         hand_pose_right |-> descending_match_with_tolerance(
             window_frame_times_ns, hand_pose_right, hand_msg_tolerance_nsec),
         obj_dets |-> descending_match_with_tolerance(
             window_frame_times_ns, obj_dets, 0)]

\* Variant: pops messages stamped at the bound too (<= for <).
RECURSIVE popleft_while_not_after(_, _)
popleft_while_not_after(d, time_nsec) ==
    IF d # <<>> /\ d[1].t <= time_nsec
    THEN popleft_while_not_after(Tail(d), time_nsec)
    ELSE d

\* Variant: pops at most one message per call (if for while).
popleft_once_before(d, time_nsec) ==
    IF d # <<>> /\ d[1].t < time_nsec THEN Tail(d) ELSE d

\* while (d and time_to_int(d[0]...) < time_nsec): d.popleft()
RECURSIVE popleft_while_before(_, _)
popleft_while_before(d, time_nsec) ==
    IF d # <<>> /\ d[1].t < time_nsec
    THEN popleft_while_before(Tail(d), time_nsec)
    ELSE d

\* The four deques after clear_before(time_nsec).
clear_before(time_nsec) ==
    /\ frames' = popleft_while_before(frames, time_nsec)
    /\ hand_pose_left' = popleft_while_before(hand_pose_left, time_nsec)
    /\ hand_pose_right' = popleft_while_before(hand_pose_right, time_nsec)
    /\ obj_dets' = popleft_while_before(obj_dets, time_nsec)
    /\ UNCHANGED hand_msg_tolerance_nsec

\* What a call returned: a value, or the exception it raised.
Returned(v) == [val |-> v, exc |-> "none"]

Raised(e) == [val |-> None, exc |-> e]

\* ------------------------------------------------ public buffer calls
\* Variant: the frame is put at the head of the deque (appendleft).
QueueImageAtHead ==
    /\ NumBuffered < MaxItems
    /\ \E t \in Times :
        /\ frames' = <<Msg(t, 0)>> \o frames
        /\ op' = "queue_image"
        /\ arg' = t
    /\ ret' = Returned(None)
    /\ window' = EmptyWindow
    /\ window_dets' = <<>>
    /\ UNCHANGED <<hand_msg_tolerance_nsec, hand_pose_left, hand_pose_right, obj_dets>>
    /\ npopped' = 0
    /\ repeat' = FALSE
    /\ msg_hand' = "none"
    /\ UNCHANGED <<cfgvars, rtvars, cocovars, memovars, criteria_log, threadvars, unseen>>

QueueImage ==
    /\ NumBuffered < MaxItems
    /\ \E t \in Times :
        /\ frames' = Append(frames, Msg(t, 0))
        /\ op' = "queue_image"
        /\ arg' = t
    /\ ret' = Returned(None)
    /\ window' = EmptyWindow
    /\ window_dets' = <<>>
    /\ UNCHANGED <<hand_msg_tolerance_nsec, hand_pose_left, hand_pose_right, obj_dets>>
    /\ npopped' = 0
    /\ repeat' = FALSE
    /\ msg_hand' = "none"
    /\ UNCHANGED <<cfgvars, rtvars, cocovars, memovars, criteria_log, threadvars, unseen>>

\* Variant: a message of any other label is queued as a left hand pose.
QueueHandPoseAnyLabel ==
    /\ NumBuffered < MaxItems
    /\ \E t \in Times, hand \in Hands :
        /\ op' = "queue_hand_pose"
        /\ arg' = t
        /\ msg_hand' = hand
        /\ IF hand = "Right"
           THEN /\ hand_pose_right' = Append(hand_pose_right, Msg(t, 0))
                /\ ret' = Returned(None)
                /\ UNCHANGED hand_pose_left
           ELSE IF hand = "Left"
                THEN /\ hand_pose_left' = Append(hand_pose_left, Msg(t, 0))
                     /\ ret' = Returned(None)
                     /\ UNCHANGED hand_pose_right
                ELSE /\ hand_pose_left' = Append(hand_pose_left, Msg(t, 0))
                     /\ ret' = Returned(None)
                     /\ UNCHANGED hand_pose_right
    /\ window' = EmptyWindow
    /\ window_dets' = <<>>
    /\ UNCHANGED <<hand_msg_tolerance_nsec, frames, obj_dets>>
    /\ npopped' = 0
    /\ repeat' = FALSE
    /\ UNCHANGED <<cfgvars, rtvars, cocovars, memovars, criteria_log, threadvars, unseen>>

QueueHandPose ==
    /\ NumBuffered < MaxItems
    /\ \E t \in Times, hand \in Hands :
        /\ op' = "queue_hand_pose"
        /\ arg' = t
        /\ msg_hand' = hand
        /\ IF hand = "Right"
           THEN /\ hand_pose_right' = Append(hand_pose_right, Msg(t, 0))
                /\ ret' = Returned(None)
                /\ UNCHANGED hand_pose_left
           ELSE IF hand = "Left"
                THEN /\ hand_pose_left' = Append(hand_pose_left, Msg(t, 0))
                     /\ ret' = Returned(None)
                     /\ UNCHANGED hand_pose_right
                ELSE /\ ret' = Raised("ValueError")
                     /\ UNCHANGED <<hand_pose_left, hand_pose_right>>
    /\ window' = EmptyWindow
    /\ window_dets' = <<>>
    /\ UNCHANGED <<hand_msg_tolerance_nsec, frames, obj_dets>>
    /\ npopped' = 0
    /\ repeat' = FALSE
    /\ UNCHANGED <<cfgvars, rtvars, cocovars, memovars, criteria_log, threadvars, unseen>>

QueueObjectDetections ==
    /\ NumBuffered < MaxItems
    /\ \E t \in Times, p \in Payloads :
        /\ obj_dets' = Append(obj_dets, Msg(t, p))
        /\ op' = "queue_object_detections"
        /\ arg' = t
    /\ ret' = Returned(None)
    /\ window' = EmptyWindow
    /\ window_dets' = <<>>
    /\ UNCHANGED <<hand_msg_tolerance_nsec, frames, hand_pose_left, hand_pose_right>>
    /\ npopped' = 0
    /\ repeat' = FALSE
    /\ msg_hand' = "none"
    /\ UNCHANGED <<cfgvars, rtvars, cocovars, memovars, criteria_log, threadvars, unseen>>

GetFrameTime ==
    /\ op' = "get_frame_time"
    /\ arg' = None
    /\ ret' = IF frames = <<>> THEN Raised("IndexError")
              ELSE Returned(frames[Len(frames)].t)
    /\ window' = EmptyWindow
    /\ window_dets' = <<>>
    /\ npopped' = 0
    /\ repeat' = FALSE
    /\ msg_hand' = "none"
    /\ UNCHANGED <<bufvars, cfgvars, rtvars, cocovars, memovars, criteria_log, threadvars, unseen>>

GetWindowDetections ==
    /\ \E size \in WindowSizes :
        /\ op' = "get_window_detections"
        /\ arg' = size
        /\ window_dets' = get_window_detections(size)
    /\ ret' = Returned(None)
    /\ window' = EmptyWindow
    /\ npopped' = 0
    /\ repeat' = FALSE
    /\ msg_hand' = "none"
    /\ UNCHANGED <<bufvars, cfgvars, rtvars, cocovars, memovars, criteria_log, threadvars, unseen>>

GetWindow ==
    /\ \E size \in WindowSizes :
        /\ op' = "get_window"
        /\ arg' = size
        /\ window' = get_window(size)
    /\ ret' = Returned(None)
    /\ window_dets' = <<>>
    /\ npopped' = 0
    /\ repeat' = FALSE
    /\ msg_hand' = "none"
    /\ UNCHANGED <<bufvars, cfgvars, rtvars, cocovars, memovars, criteria_log, threadvars, unseen>>

ClearBefore ==
    /\ \E time_nsec \in 0..(MaxTime + 1) :
        /\ op' = "clear_before"
        /\ arg' = time_nsec
        /\ clear_before(time_nsec)
        /\ repeat' = (op = "clear_before" /\ arg = time_nsec)
    /\ npopped' = NumBuffered - NumBuffered'
    /\ ret' = Returned(None)
    /\ window' = EmptyWindow
    /\ window_dets' = <<>>
    /\ msg_hand' = "none"
    /\ UNCHANGED <<cfgvars, rtvars, cocovars, memovars, criteria_log, threadvars, unseen>>

\* ------------------------------------------------ initial states
InitBuffer ==
    /\ hand_msg_tolerance_nsec \in 0..MaxTol
    /\ frames = <<>>
    /\ hand_pose_left = <<>>
    /\ hand_pose_right = <<>>
    /\ obj_dets = <<>>
    /\ op = "init"
    /\ arg = None
    /\ msg_hand = "none"
    /\ ret = Returned(None)
    /\ window = EmptyWindow
    /\ window_dets = <<>>
    /\ npopped = 0
    /\ repeat = FALSE

InitRuntime ==
    /\ rt_active = TRUE
    /\ rt_awake_evt = FALSE
    /\ pc = "loop"
    /\ window_time_ns = None
    /\ window_extracted_time_ns = None
    /\ window_processed_time_ns = None
    /\ verdict = "none"
    /\ accepted_time_ns = None
    /\ criteria_log = NoCriteriaLog
    /\ memo_preproc_input = {}
    /\ memo_preproc_input_id_heap = <<>>
    /\ memo_preproc_input_poses = {}
    /\ memo_preproc_input_id_heap_poses = <<>>
    /\ memo_objects_to_feats = {}
    /\ memo_objects_to_feats_id_heap = <<>>
    /\ queued_pose_memo = {}
    /\ preproc_computed = {}
    /\ preproc_new = [ids |-> <<>>, again |-> {}]
    /\ unseen = NoneUnseen
    /\ state_lock = [owner |-> "none", count |-> 0]
    /\ hold_pc = "enter"
    /\ hold_latest = None
    /\ cb_pc = "call"
    /\ cb_arg = [op |-> "none", t |-> None, late |-> FALSE]

\* The buffer on its own, driven through its public calls by any caller.
InitBuf ==
    /\ InitBuffer
    /\ InitRuntime
    /\ window_size = MaxWindowSize
    /\ buffer_max_size_nsec = MaxRetention
    /\ window_lead_with_objects = FALSE
    /\ coco_input = FALSE
    /\ coco_pc = "off"
    /\ coco_index = 0

NextBuf ==
    \/ QueueImage
    \/ QueueHandPose
    \/ QueueObjectDetections
    \/ GetFrameTime
    \/ GetWindowDetections
    \/ GetWindow
    \/ ClearBefore

SpecBuf == InitBuf /\ [][NextBuf]_vars

\* ------------------------------------------------ ActivityClassifierTCN
\* get_window(window_size, have_leading_object=True): the window's last frame
\* is the most recent frame that has a detection set of its timestamp.
get_window_leading(size) ==
    LET with_dets == {i \in 1..Len(frames) :
                        \E j \in 1..Len(obj_dets) : obj_dets[j].t = frames[i].t}
        last == IF with_dets = {} THEN 0
                ELSE CHOOSE i \in with_dets : \A i2 \in with_dets : i >= i2
        wf == window_frames_of(SubSeq(frames, 1, last), size)
        window_frame_times_ns == TimesOf(wf)
    IN  [frames |-> wf,
         hand_pose_left |-> descending_match_with_tolerance(
             window_frame_times_ns, hand_pose_left, hand_msg_tolerance_nsec),
         hand_pose_right |-> descending_match_with_tolerance(
             window_frame_times_ns, hand_pose_right, hand_msg_tolerance_nsec),
         obj_dets |-> descending_match_with_tolerance(
             window_frame_times_ns, obj_dets, 0)]

\* Variant: a window shorter than window_size passes (<= for ==).
window_criterion_at_most_size(w) == Len(w.frames) <= window_size

window_criterion_correct_size(w) == Len(w.frames) = window_size

\* Variant: a leading frame equal to the last processed one passes (<= for <).
window_criterion_not_older_leading_frame(w) ==
    IF Len(w.frames) = 0
    THEN FALSE
    ELSE IF window_processed_time_ns # None
         THEN window_processed_time_ns <= w.frames[Len(w.frames)].t
         ELSE TRUE

\* Variant: an unset processed time is read as 0.
window_criterion_leading_frame_after_zero(w) ==
    IF Len(w.frames) = 0
    THEN FALSE
    ELSE (IF window_processed_time_ns # None THEN window_processed_time_ns ELSE 0)
            < w.frames[Len(w.frames)].t

window_criterion_new_leading_frame(w) ==
    IF Len(w.frames) = 0
    THEN FALSE
    ELSE IF window_processed_time_ns # None
         THEN window_processed_time_ns < w.frames[Len(w.frames)].t
         ELSE TRUE

\* Variant: only the frame slots are looked at.
window_criterion_frames_filled(w) ==
    IF Len(w.frames) = 0
    THEN TRUE
    ELSE \A i \in 1..Len(w.frames) : w.frames[i] # NoMsg

window_criterion_coco_input_mode(w) ==
    IF Len(w.frames) = 0
    THEN TRUE
    ELSE \A i \in 1..Len(w.frames) : w.frames[i] # NoMsg /\ w.obj_dets[i] # NoMsg

\* window_processing_criterion_fn_list: the two criteria, and the COCO one
\* when the node reads from a COCO file.
window_processing_criterion_fn_list ==
    IF coco_input
    THEN <<"correct_size", "new_leading_frame", "coco_input_mode">>
    ELSE <<"correct_size", "new_leading_frame">>

\* fn(window) for a criterion of the list.
criterion(fn, w) ==
    IF fn = "correct_size" THEN window_criterion_correct_size(w)
    ELSE IF fn = "new_leading_frame" THEN window_criterion_new_leading_frame(w)
    ELSE window_criterion_coco_input_mode(w)

\* What a call of a criterion adds to the log: the call, and the
\* _save_image_to_coco of the size criterion when the size is wrong.
criterion_called(log, fn, w) ==
    [evaluated |-> Append(log.evaluated, fn),
     saved |-> log.saved \/ (fn = "correct_size" /\ ~criterion(fn, w))]

\* Variant: all([...]) over a list, every criterion called.
RECURSIVE all_of_list(_, _, _)
all_of_list(fns, w, log) ==
    IF fns = <<>> THEN log
    ELSE all_of_list(Tail(fns), w, criterion_called(log, fns[1], w))

\* all(fn(window) for fn in window_processing_criterion_fn_list): the
\* generator is consumed up to the first criterion that returns False.
RECURSIVE all_of_generator(_, _, _)
all_of_generator(fns, w, log) ==
    IF fns = <<>> THEN log
    ELSE IF criterion(fns[1], w)
         THEN all_of_generator(Tail(fns), w, criterion_called(log, fns[1], w))
         ELSE criterion_called(log, fns[1], w)

\* all(fn(window) for fn in window_processing_criterion_fn_list): the first
\* criterion that fails, or "accepted".
Verdict(w) ==
    IF ~window_criterion_correct_size(w) THEN "size"
    ELSE IF ~window_criterion_new_leading_frame(w) THEN "progress"
    ELSE IF coco_input /\ ~window_criterion_coco_input_mode(w) THEN "complete"
    ELSE "accepted"

\* Thread.is_alive() of the runtime thread.
rt_alive == pc \notin {"stopped", "dead"}

\* Variant: the accepted path evicts to the window's oldest frame.
accepted_clear_bound_oldest(w) == w.frames[1].t

\* The bound the accepted path evicts to: the window's second-oldest frame.
accepted_clear_bound(w) == w.frames[2].t

\* Variant: the rejected path evicts everything before the latest frame.
rejected_clear_bound_latest == frames[Len(frames)].t

\* The bound the rejected path evicts to.
rejected_clear_bound == frames[Len(frames)].t - buffer_max_size_nsec

\* ---- ingestion callbacks
\* Bookkeeping for one stream across a step: an append puts one more item at
\* the tail that no extraction has read; an eviction may remove such items.
unseen_after(n, before, after) ==
    IF Len(after) > Len(before) THEN n + 1
    ELSE IF n > Len(after) THEN Len(after) ELSE n

\* How many of the n such items of a stream a step removes.
unseen_evicted(n, after) == IF n > Len(after) THEN n - Len(after) ELSE 0

\* evicted counts the items removed, since the last extraction, that were
\* queued after it.
track_unseen ==
    unseen' = [frames |-> unseen_after(unseen.frames, frames, frames'),
               obj_dets |-> unseen_after(unseen.obj_dets, obj_dets, obj_dets'),
               hand_pose_left |-> unseen_after(unseen.hand_pose_left, hand_pose_left, hand_pose_left'),
               hand_pose_right |-> unseen_after(unseen.hand_pose_right, hand_pose_right, hand_pose_right'),
               evicted |-> unseen.evicted
                             + unseen_evicted(unseen.frames, frames')
                             + unseen_evicted(unseen.obj_dets, obj_dets')
                             + unseen_evicted(unseen.hand_pose_left, hand_pose_left')
                             + unseen_evicted(unseen.hand_pose_right, hand_pose_right')]

img_ts_callback(t) ==
    IF rt_alive
    THEN /\ frames' = Append(frames, Msg(t, 0))
         /\ rt_awake_evt' = IF window_lead_with_objects THEN rt_awake_evt ELSE TRUE
    ELSE UNCHANGED <<frames, rt_awake_evt>>

det_callback(t) ==
    IF rt_alive
    THEN /\ obj_dets' = Append(obj_dets, Msg(t, 0))
         /\ rt_awake_evt' = IF window_lead_with_objects THEN TRUE ELSE rt_awake_evt
    ELSE UNCHANGED <<obj_dets, rt_awake_evt>>

\* Variant: the image callback extracts a window itself.
ImgTsCallbackExtracting ==
    /\ NumBuffered < MaxItems
    /\ \E t \in Times : img_ts_callback(t)
    /\ window' = get_window(window_size)
    /\ UNCHANGED <<hand_msg_tolerance_nsec, hand_pose_left, hand_pose_right, obj_dets>>
    /\ track_unseen
    /\ UNCHANGED <<callvars, cocovars, memovars, criteria_log, threadvars, cfgvars, rt_active, pc, window_time_ns,
                   window_extracted_time_ns, window_processed_time_ns, verdict,
                   accepted_time_ns>>

\* The subscriptions: messages of any time stamp, in any order.
ImgTsCallback ==
    /\ NumBuffered < MaxItems
    /\ \E t \in Times : img_ts_callback(t)
    /\ UNCHANGED <<hand_msg_tolerance_nsec, hand_pose_left, hand_pose_right, obj_dets>>
    /\ track_unseen
    /\ UNCHANGED <<callvars, cocovars, memovars, criteria_log, threadvars, window, cfgvars, rt_active, pc, window_time_ns,
                   window_extracted_time_ns, window_processed_time_ns, verdict,
                   accepted_time_ns>>

DetCallback ==
    /\ NumBuffered < MaxItems
    /\ \E t \in Times : det_callback(t)
    /\ UNCHANGED <<hand_msg_tolerance_nsec, frames, hand_pose_left, hand_pose_right>>
    /\ track_unseen
    /\ UNCHANGED <<callvars, cocovars, memovars, criteria_log, threadvars, window, cfgvars, rt_active, pc, window_time_ns,
                   window_extracted_time_ns, window_processed_time_ns, verdict,
                   accepted_time_ns>>

PoseCallback ==
    /\ NumBuffered < MaxItems
    /\ \E t \in Times, hand \in {"Left", "Right"} :
        IF rt_alive
        THEN IF hand = "Right"
             THEN /\ hand_pose_right' = Append(hand_pose_right, Msg(t, 0))
                  /\ UNCHANGED hand_pose_left
             ELSE /\ hand_pose_left' = Append(hand_pose_left, Msg(t, 0))
                  /\ UNCHANGED hand_pose_right
        ELSE UNCHANGED <<hand_pose_left, hand_pose_right>>
    /\ UNCHANGED <<hand_msg_tolerance_nsec, frames, obj_dets>>
    /\ track_unseen
    /\ UNCHANGED <<callvars, cocovars, memovars, criteria_log, threadvars, window, cfgvars, rtvars>>

\* Variant: stop toggles the active flag.
RtStopToggling ==
    /\ rt_active' = ~rt_active
    /\ rt_awake_evt' = TRUE
    /\ UNCHANGED <<bufvars, callvars, cocovars, memovars, criteria_log, threadvars, unseen, window, cfgvars, pc, window_time_ns,
                   window_extracted_time_ns, window_processed_time_ns, verdict,
                   accepted_time_ns>>

\* rt_stop(): clear the active flag, then wake the loop.
RtStop ==
    /\ rt_active' = FALSE
    /\ rt_awake_evt' = TRUE
    /\ UNCHANGED <<bufvars, callvars, cocovars, memovars, criteria_log, threadvars, unseen, window, cfgvars, pc, window_time_ns,
                   window_extracted_time_ns, window_processed_time_ns, verdict,
                   accepted_time_ns>>

\* ---- a callback taken in its two steps: rt_alive(), then the queueing
\* Variant: the callback does not ask whether the thread is alive.
CallbackAliveUnchecked ==
    /\ cb_pc = "call"
    /\ NumBuffered < MaxItems
    /\ \E o \in {"img_ts_callback", "det_callback", "pose_callback"}, t \in Times :
        cb_arg' = [op |-> o, t |-> t, late |-> FALSE]
    /\ cb_pc' = "queue"
    /\ UNCHANGED <<bufvars, callvars, cocovars, memovars, criteria_log, unseen, window, cfgvars, rtvars,
                   state_lock, hold_pc, hold_latest>>

\* `if self.rt_alive() and ...`: a message arrives on one of the topics; the
\* callback returns when the thread is not alive.
CallbackAlive ==
    /\ cb_pc = "call"
    /\ NumBuffered < MaxItems
    /\ \E o \in {"img_ts_callback", "det_callback", "pose_callback"}, t \in Times :
        cb_arg' = [op |-> o, t |-> t, late |-> FALSE]
    /\ cb_pc' = IF rt_alive THEN "queue" ELSE "call"
    /\ UNCHANGED <<bufvars, callvars, cocovars, memovars, criteria_log, unseen, window, cfgvars, rtvars,
                   state_lock, hold_pc, hold_latest>>

\* `... and self._buffer.queue_*(msg)`, then the wake event as configured.
CallbackQueue ==
    /\ cb_pc = "queue"
    /\ IF cb_arg.op = "img_ts_callback"
       THEN /\ frames' = Append(frames, Msg(cb_arg.t, 0))
            /\ rt_awake_evt' = IF window_lead_with_objects THEN rt_awake_evt ELSE TRUE
            /\ UNCHANGED <<hand_pose_left, hand_pose_right, obj_dets>>
       ELSE IF cb_arg.op = "det_callback"
       THEN /\ obj_dets' = Append(obj_dets, Msg(cb_arg.t, 0))
            /\ rt_awake_evt' = IF window_lead_with_objects THEN TRUE ELSE rt_awake_evt
            /\ UNCHANGED <<frames, hand_pose_left, hand_pose_right>>
       ELSE /\ hand_pose_left' = Append(hand_pose_left, Msg(cb_arg.t, 0))
            /\ UNCHANGED <<frames, hand_pose_right, obj_dets, rt_awake_evt>>
    /\ cb_arg' = [cb_arg EXCEPT !.late = ~rt_alive]
    /\ cb_pc' = "call"
    /\ track_unseen
    /\ UNCHANGED <<hand_msg_tolerance_nsec, callvars, cocovars, memovars, criteria_log, window, cfgvars,
                   rt_active, pc, window_time_ns, window_extracted_time_ns,
                   window_processed_time_ns, verdict, accepted_time_ns,
                   state_lock, hold_pc, hold_latest>>

\* ---- rt_loop
\* Variant: the loop head does not read the active flag.
RtKeepLoopingRegardless ==
    /\ pc = "loop"
    /\ pc' = "wait"
    /\ verdict' = "none"
    /\ criteria_log' = NoCriteriaLog
    /\ UNCHANGED <<bufvars, callvars, cocovars, memovars, threadvars, unseen, window, cfgvars, rt_active, rt_awake_evt,
                   window_time_ns, window_extracted_time_ns, window_processed_time_ns,
                   accepted_time_ns>>

\* while self._rt_keep_looping():
RtKeepLooping ==
    /\ pc = "loop"
    /\ pc' = IF rt_active THEN "wait" ELSE "stopped"
    /\ verdict' = "none"
    /\ criteria_log' = NoCriteriaLog
    /\ UNCHANGED <<bufvars, callvars, cocovars, memovars, threadvars, unseen, window, cfgvars, rt_active, rt_awake_evt,
                   window_time_ns, window_extracted_time_ns, window_processed_time_ns,
                   accepted_time_ns>>

\* wait_and_clear returned True: the event was set, and is cleared.
RtAwake ==
    /\ pc = "wait"
    /\ rt_awake_evt
    /\ rt_awake_evt' = FALSE
    /\ pc' = "get_window"
    /\ UNCHANGED <<bufvars, callvars, cocovars, memovars, criteria_log, threadvars, unseen, window, cfgvars, rt_active, window_time_ns,
                   window_extracted_time_ns, window_processed_time_ns, verdict,
                   accepted_time_ns>>

\* Variant: the timeout branch evicts to the retention bound, as the rejected
\* branch does.
RtHeartbeatEvicting ==
    /\ pc = "wait"
    /\ ~rt_awake_evt
    /\ pc' = "loop"
    /\ IF frames = <<>>
       THEN UNCHANGED bufvars
       ELSE clear_before(rejected_clear_bound)
    /\ track_unseen
    /\ UNCHANGED <<callvars, cocovars, memovars, criteria_log, threadvars, window, cfgvars,
                   rt_active, rt_awake_evt, window_time_ns, window_extracted_time_ns,
                   window_processed_time_ns, verdict, accepted_time_ns>>

\* wait_and_clear timed out after the heartbeat interval.
RtHeartbeat ==
    /\ pc = "wait"
    /\ ~rt_awake_evt
    /\ pc' = "loop"
    /\ UNCHANGED <<bufvars, callvars, cocovars, memovars, criteria_log, threadvars, unseen, window, cfgvars, rt_active, rt_awake_evt,
                   window_time_ns, window_extracted_time_ns, window_processed_time_ns,
                   verdict, accepted_time_ns>>

\* window = self._buffer.get_window(...); window_time_ns = its leading frame's time.
RtGetWindow ==
    /\ pc = "get_window"
    /\ window' = IF window_lead_with_objects
                 THEN get_window_leading(window_size)
                 ELSE get_window(window_size)
    /\ window_time_ns' = IF window'.frames = <<>> THEN None
                         ELSE window'.frames[Len(window'.frames)].t
    /\ pc' = "criteria"
    /\ unseen' = NoneUnseen
    /\ UNCHANGED <<bufvars, callvars, cocovars, memovars, criteria_log, threadvars, cfgvars, rt_active, rt_awake_evt,
                   window_extracted_time_ns, window_processed_time_ns, verdict,
                   accepted_time_ns>>

\* Publish the extracted time, then evaluate the criteria on the window.
RtCriteria ==
    /\ pc = "criteria"
    /\ window_extracted_time_ns' = window_time_ns
    /\ verdict' = Verdict(window)
    /\ criteria_log' = all_of_generator(window_processing_criterion_fn_list, window,
                                        NoCriteriaLog)
    /\ IF verdict' = "accepted"
       THEN /\ accepted_time_ns' = window_time_ns
            /\ pc' = "accepted"
       ELSE /\ UNCHANGED accepted_time_ns
            /\ pc' = "rejected"
    /\ UNCHANGED <<bufvars, callvars, cocovars, memovars, threadvars, unseen, window, cfgvars, rt_active, rt_awake_evt,
                   window_time_ns, window_processed_time_ns>>

\* self._buffer.clear_before(time_to_int(window.frames[1][0])); a window of one
\* frame has no frames[1]: the IndexError ends the thread.
\* Variant: the window's lists are the buffer's own, so the eviction shortens
\* the window too.
RtEvictAcceptedAliasing ==
    /\ pc = "accepted"
    /\ IF Len(window.frames) < 2
       THEN /\ pc' = "dead"
            /\ UNCHANGED <<bufvars, window>>
       ELSE /\ clear_before(accepted_clear_bound(window))
            /\ window' = [window EXCEPT
                             !.frames = popleft_while_before(@, accepted_clear_bound(window))]
            /\ pc' = "process"
    /\ track_unseen
    /\ UNCHANGED <<callvars, cocovars, memovars, criteria_log, threadvars, cfgvars, rt_active, rt_awake_evt,
                   window_time_ns, window_extracted_time_ns, window_processed_time_ns,
                   verdict, accepted_time_ns>>

RtEvictAccepted ==
    /\ pc = "accepted"
    /\ IF Len(window.frames) < 2
       THEN /\ pc' = "dead"
            /\ UNCHANGED bufvars
       ELSE /\ clear_before(accepted_clear_bound(window))
            /\ pc' = "process"
    /\ track_unseen
    /\ UNCHANGED <<callvars, cocovars, memovars, criteria_log, threadvars, window, cfgvars, rt_active, rt_awake_evt, window_time_ns,
                   window_extracted_time_ns, window_processed_time_ns, verdict,
                   accepted_time_ns>>

\* ---- _process_window: memoization
\* heappush on an id heap, kept here as an ascending sequence.
RECURSIVE heappush(_, _)
heappush(h, k) ==
    IF h = <<>> THEN <<k>>
    ELSE IF k <= h[1] THEN <<k>> \o h
         ELSE <<h[1]>> \o heappush(Tail(h), k)

\* The ids (source stamps) of the filled slots of a window stream.
RECURSIVE slot_ids(_)
slot_ids(slots) ==
    IF slots = <<>> THEN <<>>
    ELSE IF slots[1] = NoMsg THEN slot_ids(Tail(slots))
         ELSE <<slots[1].t>> \o slot_ids(Tail(slots))

\* Variant: every filled slot is preprocessed, in the map or not.
RECURSIVE memoize_always(_, _, _, _)
memoize_always(ids, memo, heap, new) ==
    IF ids = <<>> THEN [memo |-> memo, heap |-> heap, new |-> new]
    ELSE memoize_always(Tail(ids), memo \cup {ids[1]},
                        IF ids[1] \in memo THEN heap ELSE heappush(heap, ids[1]),
                        Append(new, ids[1]))

\* Variant: the id is pushed on the heap whether it was in the map or not.
RECURSIVE memoize_pushing_every(_, _, _, _)
memoize_pushing_every(ids, memo, heap, new) ==
    IF ids = <<>> THEN [memo |-> memo, heap |-> heap, new |-> new]
    ELSE memoize_pushing_every(Tail(ids), memo \cup {ids[1]}, heappush(heap, ids[1]),
                               IF ids[1] \in memo THEN new ELSE Append(new, ids[1]))

\* for det_msg in window.obj_dets: preprocess and memoize an id not in the
\* map, push it on the heap; an id in the map is read from it.  `new` lists the
\* ids preprocessed by this call.
RECURSIVE memoize(_, _, _, _)
memoize(ids, memo, heap, new) ==
    IF ids = <<>> THEN [memo |-> memo, heap |-> heap, new |-> new]
    ELSE IF ids[1] \in memo
         THEN memoize(Tail(ids), memo, heap, new)
         ELSE memoize(Tail(ids), memo \cup {ids[1]}, heappush(heap, ids[1]),
                      Append(new, ids[1]))

\* Variant: ids before the window's start are expired, the start itself kept.
RECURSIVE expire_before(_, _, _)
expire_before(memo, heap, window_start_time_ns) ==
    IF heap # <<>> /\ heap[1] < window_start_time_ns
    THEN IF heap[1] \in memo
         THEN expire_before(memo \ {heap[1]}, Tail(heap), window_start_time_ns)
         ELSE [memo |-> memo, heap |-> Tail(heap), exc |-> "KeyError"]
    ELSE [memo |-> memo, heap |-> heap, exc |-> "none"]

\* while heap and heap[0] <= window_start_time_ns: del memo[heappop(heap)]
RECURSIVE expire(_, _, _)
expire(memo, heap, window_start_time_ns) ==
    IF heap # <<>> /\ heap[1] <= window_start_time_ns
    THEN IF heap[1] \in memo
         THEN expire(memo \ {heap[1]}, Tail(heap), window_start_time_ns)
         ELSE [memo |-> memo, heap |-> Tail(heap), exc |-> "KeyError"]
    ELSE [memo |-> memo, heap |-> heap, exc |-> "none"]

\* The pose slots of a window (the stream of each hand).
window_pose_ids(w) == slot_ids(w.hand_pose_left) \o slot_ids(w.hand_pose_right)

\* Ids of a sequence that are in a set.
InSet(ids, S) == {ids[i] : i \in {n \in 1..Len(ids) : ids[n] \in S}}

\* _process_window: the detections and poses of the window are memoized;
\* then either NoActivityClassification is raised (before the memos are
\* expired) or the classification is made and the memos are expired up to the
\* window's oldest frame.  A KeyError of the expiry leaves the loop.
process_window(outcome) ==
    LET dets == memoize(slot_ids(window.obj_dets), memo_preproc_input,
                        memo_preproc_input_id_heap, <<>>)
        poses == memoize(window_pose_ids(window), memo_preproc_input_poses,
                         memo_preproc_input_id_heap_poses, <<>>)
        window_start_time_ns == window.frames[1].t
        kept == expire(dets.memo, dets.heap, window_start_time_ns)
        feats == expire(memo_objects_to_feats, memo_objects_to_feats_id_heap,
                        window_start_time_ns)
    IN  /\ memo_preproc_input_poses' = poses.memo
        /\ memo_preproc_input_id_heap_poses' = poses.heap
        /\ preproc_computed' = preproc_computed \cup InSet(dets.new, Times)
        /\ preproc_new' = [ids |-> dets.new, again |-> InSet(dets.new, preproc_computed)]
        /\ IF outcome = "published"
           THEN /\ memo_preproc_input' = kept.memo
                /\ memo_preproc_input_id_heap' = kept.heap
                /\ memo_objects_to_feats' = feats.memo
                /\ memo_objects_to_feats_id_heap' = feats.heap
                /\ queued_pose_memo' = queued_pose_memo \ (memo_objects_to_feats \ feats.memo)
                /\ verdict' = IF kept.exc = "none" /\ feats.exc = "none"
                              THEN outcome ELSE "KeyError"
           ELSE /\ memo_preproc_input' = dets.memo
                /\ memo_preproc_input_id_heap' = dets.heap
                /\ UNCHANGED <<memo_objects_to_feats, memo_objects_to_feats_id_heap,
                               queued_pose_memo>>
                /\ verdict' = outcome

\* Variant: the processed time is recorded only for a published window.
RtProcessRecordingPublished ==
    /\ pc = "process"
    /\ \E outcome \in {"published", "no_classification"} : process_window(outcome)
    /\ IF verdict' = "KeyError"
       THEN /\ pc' = "dead"
            /\ UNCHANGED <<window, window_time_ns, window_processed_time_ns>>
       ELSE /\ window_processed_time_ns' = IF verdict' = "published" THEN window_time_ns
                                           ELSE window_processed_time_ns
            /\ pc' = "loop"
            /\ window' = EmptyWindow
            /\ window_time_ns' = None
    /\ UNCHANGED <<bufvars, callvars, cocovars, cfgvars, rt_active, rt_awake_evt,
                   window_extracted_time_ns, accepted_time_ns, criteria_log, unseen,
                   threadvars>>

\* try: _process_window, publish; except NoActivityClassification: no
\* publish.  After either, the window's leading time is recorded as processed.
\* The outcome stays in verdict until the loop head; the loop's locals are
\* dead afterwards.
RtProcess ==
    /\ pc = "process"
    /\ \E outcome \in {"published", "no_classification"} : process_window(outcome)
    /\ IF verdict' = "KeyError"
       THEN /\ pc' = "dead"
            /\ UNCHANGED <<window, window_time_ns, window_processed_time_ns>>
       ELSE /\ window_processed_time_ns' = window_time_ns
            /\ pc' = "loop"
            /\ window' = EmptyWindow
            /\ window_time_ns' = None
    /\ UNCHANGED <<bufvars, callvars, cocovars, cfgvars, rt_active, rt_awake_evt,
                   window_extracted_time_ns, accepted_time_ns, criteria_log, unseen,
                   threadvars>>

\* with self._buffer: clear_before(latest_time() - max size), unless it is empty.
RtEvictRejected ==
    /\ pc = "rejected"
    /\ IF frames = <<>>
       THEN UNCHANGED bufvars
       ELSE clear_before(rejected_clear_bound)
    /\ pc' = "loop"
    /\ verdict' = "rejected"
    /\ window' = EmptyWindow
    /\ window_time_ns' = None
    /\ criteria_log' = NoCriteriaLog
    /\ track_unseen
    /\ UNCHANGED <<callvars, cocovars, memovars, threadvars, cfgvars, rt_active, rt_awake_evt,
                   window_extracted_time_ns, window_processed_time_ns, accepted_time_ns>>

\* The node on live streams: InputBuffer(0, ...), no COCO input thread.
Init ==
    /\ InitBuffer
    /\ hand_msg_tolerance_nsec = 0
    /\ InitRuntime
    /\ window_size \in WindowSizes
    /\ buffer_max_size_nsec \in 0..MaxRetention
    /\ window_lead_with_objects = FALSE
    /\ coco_input = FALSE
    /\ coco_pc = "off"
    /\ coco_index = 0

Next ==
    \/ ImgTsCallback
    \/ DetCallback
    \/ PoseCallback
    \/ RtStop
    \/ RtKeepLooping
    \/ RtAwake
    \/ RtHeartbeat
    \/ RtGetWindow
    \/ RtCriteria
    \/ RtEvictAccepted
    \/ RtProcess
    \/ RtEvictRejected

Spec == Init /\ [][Next]_vars

\* A step of the runtime thread.
RtLoopStep ==
    \/ RtKeepLooping
    \/ RtAwake
    \/ RtHeartbeat
    \/ RtGetWindow
    \/ RtCriteria
    \/ RtEvictAccepted
    \/ RtProcess
    \/ RtEvictRejected

\* The node fed by its image subscription alone, the runtime thread kept
\* scheduled.  rt_stop comes from outside and need never come.
NextImages ==
    \/ ImgTsCallback
    \/ RtStop
    \/ RtLoopStep

SpecImages == Init /\ [][NextImages]_vars

SpecImagesFair == SpecImages /\ WF_vars(RtLoopStep)

\* The node fed with images and object detections (no poses, no rt_stop).
NextDets ==
    \/ ImgTsCallback
    \/ DetCallback
    \/ RtLoopStep

SpecDets == Init /\ [][NextDets]_vars

\* The same with room for one more buffered message.
MaxMemoItems == MaxItems + 1

ImgTsCallbackMore ==
    /\ NumBuffered < MaxMemoItems
    /\ \E t \in Times : img_ts_callback(t)
    /\ UNCHANGED <<hand_msg_tolerance_nsec, hand_pose_left, hand_pose_right, obj_dets>>
    /\ track_unseen
    /\ UNCHANGED <<callvars, cocovars, memovars, criteria_log, threadvars, window, cfgvars, rt_active, pc,
                   window_time_ns, window_extracted_time_ns, window_processed_time_ns,
                   verdict, accepted_time_ns>>

DetCallbackMore ==
    /\ NumBuffered < MaxMemoItems
    /\ \E t \in Times : det_callback(t)
    /\ UNCHANGED <<hand_msg_tolerance_nsec, frames, hand_pose_left, hand_pose_right>>
    /\ track_unseen
    /\ UNCHANGED <<callvars, cocovars, memovars, criteria_log, threadvars, window, cfgvars, rt_active, pc,
                   window_time_ns, window_extracted_time_ns, window_processed_time_ns,
                   verdict, accepted_time_ns>>

NextMemo ==
    \/ ImgTsCallbackMore
    \/ DetCallbackMore
    \/ RtLoopStep

SpecMemo == Init /\ [][NextMemo]_vars

\* The node with its callbacks in two steps, rt_stop and the loop.
NextRace ==
    \/ CallbackAlive
    \/ CallbackQueue
    \/ RtStop
    \/ RtLoopStep

SpecRace == Init /\ [][NextRace]_vars

\* The node fed with images and poses (no detections, no rt_stop).
NextPoses ==
    \/ ImgTsCallback
    \/ PoseCallback
    \/ RtLoopStep

SpecPoses == Init /\ [][NextPoses]_vars

\* ---- _thread_populate_from_coco: the COCO loading thread
\* Images are visited in frame_index order; image k is stamped nanosec =
\* frame_index, here k - 1.
image_ts_ns(k) == k - 1

\* Variant: released by any extraction at all, whatever its time.
coco_released_by_any_extraction(k) == window_extracted_time_ns # None

\* The predicate of wait_for on the extracted-time condition.
coco_released(k) ==
    /\ window_extracted_time_ns # None
    /\ window_extracted_time_ns >= image_ts_ns(k)

\* Variant: a dataset that is not of one video ends the loading thread and
\* leaves the active flag set.
CocoLoadAbortKeepsActive ==
    /\ coco_pc = "load"
    /\ \E one_video \in BOOLEAN :
        IF one_video
        THEN /\ coco_pc' = "det"
             /\ coco_index' = 1
             /\ UNCHANGED rt_active
        ELSE /\ coco_pc' = "aborted"
             /\ UNCHANGED rt_active
             /\ UNCHANGED coco_index
    /\ UNCHANGED <<bufvars, callvars, memovars, criteria_log, threadvars, unseen, window, cfgvars, rt_awake_evt, pc, window_time_ns,
                   window_extracted_time_ns, window_processed_time_ns, verdict,
                   accepted_time_ns>>

\* Load the dataset; anything but one video deactivates the runtime and returns.
CocoLoad ==
    /\ coco_pc = "load"
    /\ \E one_video \in BOOLEAN :
        IF one_video
        THEN /\ coco_pc' = "det"
             /\ coco_index' = 1
             /\ UNCHANGED rt_active
        ELSE /\ coco_pc' = "aborted"
             /\ rt_active' = FALSE
             /\ UNCHANGED coco_index
    /\ UNCHANGED <<bufvars, callvars, memovars, criteria_log, threadvars, unseen, window, cfgvars, rt_awake_evt, pc, window_time_ns,
                   window_extracted_time_ns, window_processed_time_ns, verdict,
                   accepted_time_ns>>

\* self.det_callback(det_msg)
CocoDetCallback ==
    /\ coco_pc = "det"
    /\ det_callback(image_ts_ns(coco_index))
    /\ coco_pc' = "img"
    /\ UNCHANGED <<hand_msg_tolerance_nsec, frames, hand_pose_left, hand_pose_right>>
    /\ track_unseen
    /\ UNCHANGED <<callvars, memovars, criteria_log, threadvars, coco_index, window, cfgvars, rt_active, pc, window_time_ns,
                   window_extracted_time_ns, window_processed_time_ns, verdict,
                   accepted_time_ns>>

\* self.img_ts_callback(image_ts)
CocoImgTsCallback ==
    /\ coco_pc = "img"
    /\ img_ts_callback(image_ts_ns(coco_index))
    /\ coco_pc' = "wait"
    /\ UNCHANGED <<hand_msg_tolerance_nsec, hand_pose_left, hand_pose_right, obj_dets>>
    /\ track_unseen
    /\ UNCHANGED <<callvars, memovars, criteria_log, threadvars, coco_index, window, cfgvars, rt_active, pc, window_time_ns,
                   window_extracted_time_ns, window_processed_time_ns, verdict,
                   accepted_time_ns>>

\* Variant: the thread does not wait after the last image.
CocoWaitNotAfterLast ==
    /\ coco_pc = "wait"
    /\ IF coco_index < MaxDataset
       THEN /\ coco_released(coco_index)
            /\ coco_index' = coco_index + 1
            /\ coco_pc' = "det"
       ELSE /\ coco_pc' = "complete"
            /\ UNCHANGED coco_index
    /\ UNCHANGED <<bufvars, callvars, memovars, criteria_log, threadvars, unseen, window, cfgvars, rtvars>>

\* wait_for returns once its predicate holds; then the next image, or the end.
CocoWait ==
    /\ coco_pc = "wait"
    /\ coco_released(coco_index)
    /\ IF coco_index < MaxDataset
       THEN /\ coco_index' = coco_index + 1
            /\ coco_pc' = "det"
       ELSE /\ coco_pc' = "complete"
            /\ UNCHANGED coco_index
    /\ UNCHANGED <<bufvars, callvars, memovars, criteria_log, threadvars, unseen, window, cfgvars, rtvars>>

\* "Completed COCO file object yielding": self._rt_active.clear()
CocoComplete ==
    /\ coco_pc = "complete"
    /\ rt_active' = FALSE
    /\ coco_pc' = "done"
    /\ UNCHANGED <<bufvars, callvars, memovars, criteria_log, threadvars, unseen, coco_index, window, cfgvars, rt_awake_evt, pc,
                   window_time_ns, window_extracted_time_ns, window_processed_time_ns,
                   verdict, accepted_time_ns>>

\* The node on a COCO input file: the loading thread is the only source of
\* messages, and the COCO criterion is in the list.
InitReplay ==
    /\ InitBuffer
    /\ hand_msg_tolerance_nsec = 0
    /\ InitRuntime
    /\ window_size \in WindowSizes
    /\ buffer_max_size_nsec \in {0, MaxRetention, MaxDataset}
    /\ window_lead_with_objects \in BOOLEAN
    /\ coco_input = TRUE
    /\ coco_pc = "load"
    /\ coco_index = 0

CocoStep ==
    \/ CocoLoad
    \/ CocoDetCallback
    \/ CocoImgTsCallback
    \/ CocoWait
    \/ CocoComplete

NextReplay ==
    \/ CocoStep
    \/ RtStop
    \/ RtLoopStep

SpecReplay == InitReplay /\ [][NextReplay]_vars

\* Both threads keep being scheduled: a step of either that stays possible is
\* eventually taken.  rt_stop comes from outside and need never come.
SpecReplayFair ==
    /\ SpecReplay
    /\ WF_vars(RtLoopStep)
    /\ WF_vars(CocoStep)

\* ---- either mode: the node with or without a COCO file to load, its image
\* subscription delivering in both
InitModes ==
    /\ InitBuffer
    /\ hand_msg_tolerance_nsec = 0
    /\ InitRuntime
    /\ window_size \in WindowSizes
    /\ buffer_max_size_nsec = 0
    /\ window_lead_with_objects = FALSE
    /\ coco_input \in BOOLEAN
    /\ coco_pc = IF coco_input THEN "load" ELSE "off"
    /\ coco_index = 0

NextModes ==
    \/ CocoStep
    \/ ImgTsCallback
    \/ RtLoopStep

SpecModes == InitModes /\ [][NextModes]_vars

\* ---- the image callback taken statement by statement
\* Variant: the wake event is set before the message is queued.
img_ts_callback_set_first == <<"set", "queue_image">>

\* The two statements of img_ts_callback behind the rt_alive() test, in their
\* order: self._buffer.queue_image(...), then self._rt_awake_evt.set().
img_ts_callback_statements == <<"queue_image", "set">>

img_ts_callback_statement(st) ==
    IF st = "queue_image"
    THEN /\ frames' = Append(frames, Msg(cb_arg.t, 0))
         /\ UNCHANGED rt_awake_evt
    ELSE /\ rt_awake_evt' = IF window_lead_with_objects THEN rt_awake_evt ELSE TRUE
         /\ UNCHANGED frames

\* An image time stamp arrives; the callback returns when the thread is not
\* alive.
ImgCallbackAlive ==
    /\ cb_pc = "call"
    /\ NumBuffered < MaxItems
    /\ \E t \in Times : cb_arg' = [op |-> "img_ts_callback", t |-> t, late |-> FALSE]
    /\ cb_pc' = IF rt_alive THEN "first" ELSE "call"
    /\ UNCHANGED <<bufvars, callvars, cocovars, memovars, criteria_log, unseen, window, cfgvars,
                   rtvars, state_lock, hold_pc, hold_latest>>

ImgCallbackFirst ==
    /\ cb_pc = "first"
    /\ img_ts_callback_statement(img_ts_callback_statements[1])
    /\ cb_pc' = "second"
    /\ UNCHANGED <<hand_msg_tolerance_nsec, hand_pose_left, hand_pose_right, obj_dets,
                   callvars, cocovars, memovars, criteria_log, window, cfgvars, rt_active, pc,
                   window_time_ns, window_extracted_time_ns, window_processed_time_ns,
                   verdict, accepted_time_ns, state_lock, hold_pc, hold_latest, cb_arg>>
    /\ track_unseen

ImgCallbackSecond ==
    /\ cb_pc = "second"
    /\ img_ts_callback_statement(img_ts_callback_statements[2])
    /\ cb_pc' = "call"
    /\ UNCHANGED <<hand_msg_tolerance_nsec, hand_pose_left, hand_pose_right, obj_dets,
                   callvars, cocovars, memovars, criteria_log, window, cfgvars, rt_active, pc,
                   window_time_ns, window_extracted_time_ns, window_processed_time_ns,
                   verdict, accepted_time_ns, state_lock, hold_pc, hold_latest, cb_arg>>
    /\ track_unseen

\* The node on its image subscription, the retention at its least.
InitWake ==
    /\ Init
    /\ buffer_max_size_nsec = 0

NextWake ==
    \/ ImgCallbackAlive
    \/ ImgCallbackFirst
    \/ ImgCallbackSecond
    \/ RtLoopStep

SpecWake == InitWake /\ [][NextWake]_vars

\* The runtime thread is kept scheduled, and a callback that was entered runs
\* to its end.
SpecWakeFair ==
    /\ SpecWake
    /\ WF_vars(RtLoopStep)
    /\ WF_vars(ImgCallbackFirst)
    /\ WF_vars(ImgCallbackSecond)

\* ---- the criteria on their own, applied to any window
\* One window is extracted to be tested: up to MaxWindowSize frames of any
\* time stamps, each detection slot filled with the frame's detections or
\* None; the processed time is any.
SetWindow ==
    /\ verdict = "none"
    /\ window = EmptyWindow
    /\ window_processed_time_ns = None
    /\ \E n \in 0..MaxWindowSize :
        \E ts \in [1..n -> Times], filled \in [1..n -> BOOLEAN] :
            /\ window' = [frames |-> [i \in 1..n |-> Msg(ts[i], 0)],
                          hand_pose_left |-> [i \in 1..n |-> NoMsg],
                          hand_pose_right |-> [i \in 1..n |-> NoMsg],
                          obj_dets |-> [i \in 1..n |-> IF filled[i] THEN Msg(ts[i], 0)
                                                       ELSE NoMsg]]
            /\ window_time_ns' = IF n = 0 THEN None ELSE ts[n]
    /\ window_processed_time_ns' \in {None} \cup Times
    /\ UNCHANGED <<bufvars, callvars, cocovars, memovars, criteria_log, unseen, threadvars,
                   cfgvars, rt_active, rt_awake_evt, pc, verdict, window_extracted_time_ns,
                   accepted_time_ns>>

\* fn(window) for one criterion: what it returned is kept in verdict.
CallCriterion ==
    /\ criteria_log = NoCriteriaLog
    /\ \E fn \in {"correct_size", "new_leading_frame", "coco_input_mode"} :
        /\ criteria_log' = criterion_called(NoCriteriaLog, fn, window)
        /\ verdict' = IF criterion(fn, window) THEN "passed" ELSE "failed"
    /\ UNCHANGED <<bufvars, callvars, cocovars, memovars, unseen, threadvars, cfgvars, window,
                   rt_active, rt_awake_evt, pc, window_time_ns, window_extracted_time_ns,
                   window_processed_time_ns, accepted_time_ns>>

InitCriteria ==
    /\ InitBuffer
    /\ hand_msg_tolerance_nsec = 0
    /\ InitRuntime
    /\ window_size \in WindowSizes
    /\ buffer_max_size_nsec = 0
    /\ window_lead_with_objects = FALSE
    /\ coco_input = FALSE
    /\ coco_pc = "off"
    /\ coco_index = 0

NextCriteria ==
    \/ SetWindow
    \/ CallCriterion

SpecCriteria == InitCriteria /\ [][NextCriteria]_vars

\* ---- the buffer's lock: calls taken step by step
\* Variant: a plain Lock, which its owner cannot acquire again.
acquire_not_reentrant(th) ==
    /\ state_lock.owner = "none"
    /\ state_lock' = [owner |-> th, count |-> 1]

\* RLock.acquire: free, or owned by the calling thread (one more level).
acquire(th) ==
    /\ state_lock.owner \in {"none", th}
    /\ state_lock' = [owner |-> th, count |-> state_lock.count + 1]

\* RLock.release: one level less; the lock is free at level 0.
release(th) ==
    /\ state_lock.owner = th
    /\ state_lock' = IF state_lock.count = 1
                     THEN [owner |-> "none", count |-> 0]
                     ELSE [owner |-> th, count |-> state_lock.count - 1]

\* What the steps of this section leave alone.
LockFrame ==
    UNCHANGED <<callvars, window, cfgvars, rtvars, cocovars, memovars, criteria_log, unseen>>

\* A thread holds the buffer over two calls, as rt_loop does on its rejected
\* path:  with self._buffer:  clear_before(latest_time() - buffer_max_size_nsec)
\* `with self._buffer:` (__enter__)
HoldEnter ==
    /\ hold_pc = "enter"
    /\ acquire("hold")
    /\ hold_pc' = "latest_acquire"
    /\ UNCHANGED <<bufvars, hold_latest, cb_pc, cb_arg>>
    /\ LockFrame

\* latest_time(): its own `with self.__state_lock:`
HoldLatestAcquire ==
    /\ hold_pc = "latest_acquire"
    /\ acquire("hold")
    /\ hold_pc' = "latest"
    /\ UNCHANGED <<bufvars, hold_latest, cb_pc, cb_arg>>
    /\ LockFrame

\* latest_time(): the time of the last frame; RuntimeError with no frame.
HoldLatestTime ==
    /\ hold_pc = "latest"
    /\ hold_latest' = IF frames = <<>> THEN None ELSE frames[Len(frames)].t
    /\ hold_pc' = "latest_release"
    /\ UNCHANGED <<bufvars, state_lock, cb_pc, cb_arg>>
    /\ LockFrame

\* latest_time() returns or raises; the RuntimeError is passed over and the
\* `with` is left.
HoldLatestRelease ==
    /\ hold_pc = "latest_release"
    /\ release("hold")
    /\ hold_pc' = IF hold_latest = None THEN "exit" ELSE "clear_acquire"
    /\ UNCHANGED <<bufvars, hold_latest, cb_pc, cb_arg>>
    /\ LockFrame

\* clear_before(t): its own `with self.__state_lock:`
HoldClearAcquire ==
    /\ hold_pc = "clear_acquire"
    /\ acquire("hold")
    /\ hold_pc' = "clear_frames"
    /\ UNCHANGED <<bufvars, hold_latest, cb_pc, cb_arg>>
    /\ LockFrame

\* clear_before(t): the frames deque first ...
HoldClearFrames ==
    /\ hold_pc = "clear_frames"
    /\ frames' = popleft_while_before(frames, hold_latest - buffer_max_size_nsec)
    /\ hold_pc' = "clear_rest"
    /\ UNCHANGED <<hand_msg_tolerance_nsec, hand_pose_left, hand_pose_right, obj_dets,
                   state_lock, hold_latest, cb_pc, cb_arg>>
    /\ LockFrame

\* ... then the pose and detection deques.
HoldClearRest ==
    /\ hold_pc = "clear_rest"
    /\ hand_pose_left' = popleft_while_before(hand_pose_left, hold_latest - buffer_max_size_nsec)
    /\ hand_pose_right' = popleft_while_before(hand_pose_right, hold_latest - buffer_max_size_nsec)
    /\ obj_dets' = popleft_while_before(obj_dets, hold_latest - buffer_max_size_nsec)
    /\ hold_pc' = "clear_release"
    /\ UNCHANGED <<hand_msg_tolerance_nsec, frames, state_lock, hold_latest, cb_pc, cb_arg>>
    /\ LockFrame

HoldClearRelease ==
    /\ hold_pc = "clear_release"
    /\ release("hold")
    /\ hold_pc' = "exit"
    /\ UNCHANGED <<bufvars, hold_latest, cb_pc, cb_arg>>
    /\ LockFrame

\* the end of the `with` (__exit__)
HoldExit ==
    /\ hold_pc = "exit"
    /\ release("hold")
    /\ hold_pc' = "enter"
    /\ hold_latest' = None
    /\ UNCHANGED <<bufvars, cb_pc, cb_arg>>
    /\ LockFrame

HoldStep ==
    \/ HoldEnter
    \/ HoldLatestAcquire
    \/ HoldLatestTime
    \/ HoldLatestRelease
    \/ HoldClearAcquire
    \/ HoldClearFrames
    \/ HoldClearRest
    \/ HoldClearRelease
    \/ HoldExit

\* Another thread calls the buffer: queue_image, queue_object_detections or
\* clear_before, each under `with self.__state_lock:`.
CallAcquire ==
    /\ cb_pc = "call"
    /\ \E o \in {"queue_image", "queue_object_detections", "clear_before"}, t \in Times :
        /\ o # "clear_before" => NumBuffered < MaxItems
        /\ cb_arg' = [op |-> o, t |-> t, late |-> FALSE]
    /\ acquire("call")
    /\ cb_pc' = "body"
    /\ UNCHANGED <<bufvars, hold_pc, hold_latest>>
    /\ LockFrame

CallBody ==
    /\ cb_pc = "body"
    /\ IF cb_arg.op = "queue_image"
       THEN /\ frames' = Append(frames, Msg(cb_arg.t, 0))
            /\ UNCHANGED <<hand_msg_tolerance_nsec, hand_pose_left, hand_pose_right, obj_dets>>
       ELSE IF cb_arg.op = "queue_object_detections"
       THEN /\ obj_dets' = Append(obj_dets, Msg(cb_arg.t, 0))
            /\ UNCHANGED <<hand_msg_tolerance_nsec, hand_pose_left, hand_pose_right, frames>>
       ELSE clear_before(cb_arg.t)
    /\ cb_pc' = "release"
    /\ UNCHANGED <<state_lock, hold_pc, hold_latest, cb_arg>>
    /\ LockFrame

CallRelease ==
    /\ cb_pc = "release"
    /\ release("call")
    /\ cb_pc' = "call"
    /\ UNCHANGED <<bufvars, hold_pc, hold_latest, cb_arg>>
    /\ LockFrame

InitLock ==
    /\ InitBuffer
    /\ hand_msg_tolerance_nsec = 0
    /\ InitRuntime
    /\ window_size = MaxWindowSize
    /\ buffer_max_size_nsec \in 0..MaxRetention
    /\ window_lead_with_objects = FALSE
    /\ coco_input = FALSE
    /\ coco_pc = "off"
    /\ coco_index = 0

NextLock ==
    \/ HoldStep
    \/ CallAcquire
    \/ CallBody
    \/ CallRelease

SpecLock == InitLock /\ [][NextLock]_vars

\* ============================================================ claims
\* Non-decreasing and strictly increasing timestamp sequences.
Sorted(ts) == \A i \in 1..(Len(ts) - 1) : ts[i] <= ts[i + 1]

StrictlySorted(ts) == \A i \in 1..(Len(ts) - 1) : ts[i] < ts[i + 1]

\* The messages of d stamped at or after t, in d's order.
RECURSIVE AtOrAfter(_, _)
AtOrAfter(d, t) ==
    IF d = <<>> THEN <<>>
    ELSE IF d[1].t >= t THEN <<d[1]>> \o AtOrAfter(Tail(d), t)
         ELSE AtOrAfter(Tail(d), t)

\* The reference rule of the tolerance join for one frame: among the messages
\* within tol of key_time the one of smallest absolute difference, the most
\* recent (last queued) on equal difference, else None.
RefSlot(key_time, values, tol) ==
    LET cands == {j \in 1..Len(values) : Abs(values[j].t - key_time) <= tol}
    IN  IF cands = {} THEN NoMsg
        ELSE values[CHOOSE j \in cands : \A j2 \in cands :
                 \/ Abs(values[j].t - key_time) < Abs(values[j2].t - key_time)
                 \/ /\ Abs(values[j].t - key_time) = Abs(values[j2].t - key_time)
                    /\ j >= j2]

\* No message of values is within tol of two slots of key_times.
NoSharedMessage(key_times, values, tol) ==
    \A j \in 1..Len(values) : \A i1, i2 \in 1..Len(key_times) :
        (i1 < i2 /\ Abs(values[j].t - key_times[i1]) <= tol)
            => Abs(values[j].t - key_times[i2]) > tol

WindowTimes == TimesOf(window.frames)

C4_WindowAligned ==
    /\ Len(window.obj_dets) = Len(window.frames)
    /\ Len(window.hand_pose_left) = Len(window.frames)
    /\ Len(window.hand_pose_right) = Len(window.frames)
    /\ \A i \in 1..Len(window.frames) :
        /\ window.frames[i] # NoMsg
        /\ window.obj_dets[i] # NoMsg => window.obj_dets[i].t = window.frames[i].t
        /\ window.hand_pose_left[i] # NoMsg =>
             Abs(window.hand_pose_left[i].t - window.frames[i].t) <= hand_msg_tolerance_nsec
        /\ window.hand_pose_right[i] # NoMsg =>
             Abs(window.hand_pose_right[i].t - window.frames[i].t) <= hand_msg_tolerance_nsec

C4_Witness ==
    /\ op = "get_window"
    /\ arg = 3
    /\ Len(window.frames) = 2
    /\ window.obj_dets[1] = NoMsg
    /\ window.obj_dets[2] # NoMsg

\* ---- C5
\* C5 as claimed: every buffered detection whose source_stamp equals a window
\* frame's timestamp is in that frame's slot; a frame with no such detection
\* has None; a detection equal to no frame's timestamp is in no slot.
C5_Claimed ==
    op = "get_window" =>
        \A i \in 1..Len(window.frames) :
            /\ \A j \in 1..Len(obj_dets) :
                 obj_dets[j].t = window.frames[i].t => window.obj_dets[i] = obj_dets[j]
            /\ (\A j \in 1..Len(obj_dets) : obj_dets[j].t # window.frames[i].t)
                 => window.obj_dets[i] = NoMsg

\* C5 (amended): when the window's frame timestamps are strictly increasing
\* and the detection deque is in non-decreasing source_stamp order, every
\* window frame with a buffered detection of equal source_stamp has in its slot
\* the most recently queued such detection; in every case a frame with no such
\* detection has None, and a filled slot holds a buffered detection stamped
\* exactly with its frame's timestamp.
C5_ExactJoin ==
    op = "get_window" =>
        \A i \in 1..Len(window.frames) :
            LET same == {j \in 1..Len(obj_dets) : obj_dets[j].t = window.frames[i].t}
            IN  /\ (same # {} /\ StrictlySorted(WindowTimes) /\ Sorted(TimesOf(obj_dets)))
                     => window.obj_dets[i] = obj_dets[CHOOSE j \in same : \A j2 \in same : j >= j2]
                /\ same = {} => window.obj_dets[i] = NoMsg
                /\ window.obj_dets[i] # NoMsg =>
                     \E j \in same : window.obj_dets[i] = obj_dets[j]

\* Scenario C: frame 1 has its detection, the next frame has none.
C5_Witness ==
    /\ op = "get_window"
    /\ Len(window.frames) = 2
    /\ StrictlySorted(WindowTimes)
    /\ Len(obj_dets) = 1
    /\ obj_dets[1].t = window.frames[1].t
    /\ window.obj_dets = <<obj_dets[1], NoMsg>>

\* ---- C6
LonePoseClaimed(deque, slots) ==
    Len(deque) = 1 =>
        \A i \in 1..Len(window.frames) :
            LET dist == Abs(deque[1].t - window.frames[i].t)
            IN  /\ dist = hand_msg_tolerance_nsec => slots[i] = deque[1]
                /\ dist = hand_msg_tolerance_nsec + 1 => slots[i] = NoMsg

LonePoseAmended(deque, slots) ==
    Len(deque) = 1 =>
        \A i \in 1..Len(window.frames) :
            LET dist == Abs(deque[1].t - window.frames[i].t)
                later_frame_takes_it ==
                    \E i2 \in (i + 1)..Len(window.frames) :
                        Abs(deque[1].t - window.frames[i2].t) <= hand_msg_tolerance_nsec
            IN  /\ (dist = hand_msg_tolerance_nsec /\ Sorted(WindowTimes)
                        /\ ~later_frame_takes_it)
                     => slots[i] = deque[1]
                /\ dist = hand_msg_tolerance_nsec + 1 => slots[i] = NoMsg
                /\ (hand_msg_tolerance_nsec = 0 /\ slots[i] # NoMsg)
                     => deque[1].t = window.frames[i].t

JoinIsReference(deque, slots, tol) ==
    (Sorted(WindowTimes) /\ Sorted(TimesOf(deque))) =>
        \A i \in 1..Len(window.frames) :
            slots[i] = RefSlot(window.frames[i].t, deque, tol)

JoinIsReferenceUnshared(deque, slots, tol) ==
    (Sorted(WindowTimes) /\ Sorted(TimesOf(deque))
        /\ NoSharedMessage(WindowTimes, deque, tol)) =>
        \A i \in 1..Len(window.frames) :
            slots[i] = RefSlot(window.frames[i].t, deque, tol)

ClearedTo(d, d_after, t) == d_after = AtOrAfter(d, t)

\* C8 as claimed: after clear_before(t) each deque holds exactly its messages
\* stamped >= t, in order, whatever the order of the timestamps in the deque.
C8_Claimed ==
    [][op' = "clear_before" =>
        /\ ClearedTo(frames, frames', arg')
        /\ ClearedTo(hand_pose_left, hand_pose_left', arg')
        /\ ClearedTo(hand_pose_right, hand_pose_right', arg')
        /\ ClearedTo(obj_dets, obj_dets', arg')]_vars

ClearedToIfSorted(d, d_after, t) ==
    /\ Sorted(TimesOf(d)) => d_after = AtOrAfter(d, t)
    /\ \E k \in 0..Len(d) : d_after = SubSeq(d, k + 1, Len(d))

\* C8 (amended): after clear_before(t), each deque that was in non-decreasing
\* timestamp order holds exactly its messages stamped >= t, in their order; a
\* deque in any other order loses only a prefix (the head run stamped < t).
C8_ClearBefore ==
    [][op' = "clear_before" =>
        /\ ClearedToIfSorted(frames, frames', arg')
        /\ ClearedToIfSorted(hand_pose_left, hand_pose_left', arg')
        /\ ClearedToIfSorted(hand_pose_right, hand_pose_right', arg')
        /\ ClearedToIfSorted(obj_dets, obj_dets', arg')]_vars

C8_Witness ==
    /\ op = "clear_before"
    /\ arg = 1
    /\ npopped = 2
    /\ Len(frames) = 1
    /\ frames[1].t = 1

\* ---- C9
\* C9: clear_before(t) called again with the same t leaves every deque exactly
\* as the first call left it.
C9_ClearIdempotent ==
    [][(op = "clear_before" /\ op' = "clear_before" /\ arg' = arg) =>
        /\ frames' = frames
        /\ hand_pose_left' = hand_pose_left
        /\ hand_pose_right' = hand_pose_right
        /\ obj_dets' = obj_dets]_vars

\* A repeated clear_before on a buffer the first call had work to do on.
C9_Witness ==
    /\ op = "clear_before"
    /\ repeat
    /\ arg = 2
    /\ npopped = 0
    /\ NumBuffered = 2
    /\ Len(frames) = 2
    /\ frames[1].t = 2
    /\ frames[2].t = 0

\* ---- runtime loop
\* The step of rt_loop that evaluates the criteria, and its two outcomes.
CriteriaStep == pc = "criteria" /\ pc' # "criteria"

AcceptStep == pc = "criteria" /\ pc' = "accepted"

RejectStep == pc = "criteria" /\ pc' = "rejected"

\* C1: whenever the loop accepts a window, the window's leading (most recent)
\* frame time is strictly later than that of the previously accepted window,
\* and a full window whose leading time is not later than the previously
\* accepted one is rejected by the new-leading-frame criterion.
C1_ProgressMonotone ==
    [][ /\ AcceptStep =>
             (accepted_time_ns = None \/ accepted_time_ns' > accepted_time_ns)
        /\ (/\ CriteriaStep
            /\ Len(window.frames) = window_size
            /\ accepted_time_ns # None
            /\ window_time_ns <= accepted_time_ns)
           => (RejectStep /\ verdict' = "progress") ]_vars

\* A full window ending at the time of the already accepted one was rejected
\* by the new-leading-frame criterion.
C1_Witness ==
    /\ pc = "rejected"
    /\ verdict = "progress"
    /\ Len(window.frames) = window_size
    /\ window_processed_time_ns # None
    /\ window_time_ns = window_processed_time_ns

\* C2: a window is accepted only if it holds exactly window_size frames; a
\* window of any other length is rejected by the size criterion and never
\* reaches the classifier; in trailing mode the extracted window holds the
\* last min(window_size, buffered) frames and its time is the last appended
\* frame's; the first full window is accepted.
C2_SizeCriterion ==
    /\ [](pc \in {"accepted", "process"} => Len(window.frames) = window_size)
    /\ [][ /\ (CriteriaStep /\ Len(window.frames) # window_size)
                => (RejectStep /\ verdict' = "size")
           /\ (CriteriaStep /\ Len(window.frames) = window_size
                            /\ window_processed_time_ns = None)
                => (AcceptStep /\ accepted_time_ns' = window.frames[window_size].t)
           /\ (pc = "get_window" /\ pc' = "criteria")
                => /\ Len(window'.frames) = Min2(window_size, Len(frames))
                   /\ frames # <<>> => window_time_ns' = frames[Len(frames)].t ]_vars

\* The first window of three frames 0, 1, 2 was accepted with leading time 2.
C2_Witness ==
    /\ pc = "accepted"
    /\ window_size = 3
    /\ window_processed_time_ns = None
    /\ TimesOf(window.frames) = <<0, 1, 2>>
    /\ accepted_time_ns = 2

\* The retention bound: the oldest buffered frame is no older than the newest
\* one less buffer_max_size_nsec.
WithinRetention ==
    frames # <<>> =>
        \A i \in 1..Len(frames) :
            frames[i].t >= frames[Len(frames)].t - buffer_max_size_nsec

\* The two evicting steps of rt_loop.
EvictAcceptedStep == pc = "accepted" /\ pc' = "process"

EvictRejectedStep == pc = "rejected" /\ pc' = "loop"

\* C10: right after the eviction of every iteration, on the accepted and on
\* the rejected path, no buffered frame is older than the newest buffered
\* frame less buffer_max_size_nsec.
C10_Claimed ==
    [][(EvictAcceptedStep \/ EvictRejectedStep) => WithinRetention']_vars

\* ---- replay from a COCO file
\* The loading thread starts to push image k: its first call, det_callback.
CocoPushStep == coco_pc = "det" /\ coco_pc' = "img"

\* C11: the loading thread starts to push image k+1 only when the runtime
\* loop's last extracted time is set and at least the time of image k; at
\* every moment the extracted time is at least the time of the image before
\* the one in hand, so the thread is at most one image ahead of the extraction.
C11_Backpressure ==
    /\ [](coco_index >= 2 =>
            /\ window_extracted_time_ns # None
            /\ window_extracted_time_ns >= image_ts_ns(coco_index - 1))
    /\ [][(CocoPushStep /\ coco_index >= 2) =>
            /\ window_extracted_time_ns # None
            /\ window_extracted_time_ns >= image_ts_ns(coco_index - 1)]_vars

\* The thread was released by the extraction of image 2 and is pushing image 3.
C11_Witness ==
    /\ coco_index = 3
    /\ coco_pc = "img"
    /\ window_extracted_time_ns = image_ts_ns(2)

\* C13: replaying with the window anchored on the latest frame and a window
\* size of at least 2, the buffer never holds more than window_size + 1
\* frames, however long the dataset is.
C13_ReplayBufferBound ==
    (coco_input /\ ~window_lead_with_objects /\ window_size >= 2)
        => Len(frames) <= window_size + 1

\* A dataset longer than the bound: window size 2, the fourth image pushed,
\* three frames buffered, nothing evicted by retention.
C13_Witness ==
    /\ coco_input /\ ~window_lead_with_objects
    /\ window_size = 2
    /\ buffer_max_size_nsec = MaxDataset
    /\ coco_index = 4
    /\ Len(frames) = window_size + 1

\* The loading thread is released from its wait.
CocoReleaseStep == coco_pc = "wait" /\ coco_pc' # "wait"

\* C14: when the loading thread has pushed its last image and cleared the
\* active flag, the runtime loop is stopped only after it extracted the window
\* ending at that image and took it through the criteria, and every window it
\* accepted was processed; each image the thread was released from had a
\* window extracted that ends at it.
C14_ReplayCompletion ==
    /\ []((coco_pc = "done" /\ pc = "stopped") =>
            /\ window_extracted_time_ns = image_ts_ns(MaxDataset)
            /\ accepted_time_ns = window_processed_time_ns)
    /\ [][CocoReleaseStep =>
            window_extracted_time_ns = image_ts_ns(coco_index)]_vars

\* The whole dataset replayed: the loop stopped after it processed the window
\* ending at the last image.
C14_Witness ==
    /\ coco_pc = "done"
    /\ pc = "stopped"
    /\ window_processed_time_ns = image_ts_ns(MaxDataset)

\* C12: with the runtime thread running, the loading thread waiting after a
\* push is eventually released, under either anchoring of the window.
C12_Claimed ==
    (coco_pc = "wait") ~> (coco_pc # "wait" \/ ~rt_active \/ ~rt_alive)

\* C15: once the active flag is cleared or the runtime thread has ended, a
\* loading thread that is waiting is eventually released.
C15_Claimed ==
    (coco_pc = "wait" /\ (~rt_active \/ ~rt_alive)) ~> (coco_pc # "wait")

C17_StopIdempotent ==
    /\ [][~rt_active => ~rt_active']_vars
    /\ [][pc = "stopped" => pc' = "stopped"]_vars
    /\ [][(RtStop /\ ~rt_active) =>
            /\ rt_awake_evt'
            /\ UNCHANGED <<bufvars, window, cfgvars, rt_active, pc, window_time_ns,
                           window_extracted_time_ns, window_processed_time_ns,
                           verdict, accepted_time_ns>>]_vars

\* The loop stopped on a first stop, and a later stop has set the wake event.
C17_Witness ==
    /\ pc = "stopped"
    /\ ~rt_active
    /\ rt_awake_evt

\* C18: the window in hand changes only when the loop extracts one at the
\* start of an iteration or drops it at the end of one: no callback, and no
\* step taken while a window is validated or processed, extracts a window.
C18_SingleFlight ==
    [][(window' # window \/ window_time_ns' # window_time_ns) =>
            (pc = "get_window" \/ pc' = "loop")]_vars

\* A frame arrived while a window was being processed: the wake event is set,
\* the window in hand is the one extracted before.
C18_Witness ==
    /\ pc = "process"
    /\ rt_awake_evt
    /\ Len(frames) >= 1
    /\ frames[Len(frames)].t # window_time_ns

\* ---- rejection
\* The rejected path's eviction step.
RejectedEvictionStep == pc = "rejected" /\ pc' # "rejected"

\* C19: a window that fails a criterion is never processed and nothing is
\* published for it; the processed time stays as it was; every stream is
\* evicted from its head up to the latest frame's time less the retention, in
\* one step with the read of that time; with no frame buffered nothing is
\* evicted; either way the loop goes on to its head.
C19_RejectionPath ==
    /\ [][RejectStep => verdict' \in {"size", "progress", "complete"}]_vars
    /\ [][RejectedEvictionStep =>
            /\ pc' = "loop"
            /\ verdict' = "rejected"
            /\ window_processed_time_ns' = window_processed_time_ns
            /\ accepted_time_ns' = accepted_time_ns
            /\ IF frames = <<>>
               THEN UNCHANGED bufvars
               ELSE LET bound == frames[Len(frames)].t - buffer_max_size_nsec
                    IN  /\ frames' = popleft_while_before(frames, bound)
                        /\ obj_dets' = popleft_while_before(obj_dets, bound)
                        /\ hand_pose_left' = popleft_while_before(hand_pose_left, bound)
                        /\ hand_pose_right' = popleft_while_before(hand_pose_right, bound)
                        /\ frames'[Len(frames')] = frames[Len(frames)]]_vars

\* A rejected iteration is over, frames still buffered, with retention 0.
C19_Witness ==
    /\ pc = "loop"
    /\ verdict = "rejected"
    /\ buffer_max_size_nsec = 0
    /\ frames # <<>>
    /\ window_processed_time_ns # None

\* The end of processing with no classification.
NoClassificationStep == pc = "process" /\ pc' = "loop" /\ verdict' = "no_classification"

\* C20: when processing an accepted window yields no classification, the
\* thread goes on to the loop head with nothing published, and the buffer is
\* within the retention bound as after a rejection.
C20_Claimed ==
    [][NoClassificationStep => (rt_alive' /\ WithinRetention')]_vars

ProcessStep == pc = "process" /\ pc' = "loop"

\* C21 as stated: the time the progress criterion compares against is not
\* advanced by a window for which the classifier reported no classification.
C21_Claimed ==
    [][NoClassificationStep => window_processed_time_ns' = window_processed_time_ns]_vars

\* C21: the time the progress criterion compares against is the leading time
\* of the last window that passed the criteria and went through processing,
\* whether a classification was published or none could be made; no other
\* step (a rejection among them) changes it, and a window of the right size is
\* accepted exactly when no window was processed yet or its leading time is
\* strictly later than that time.
C21_ProcessedTime ==
    [][/\ ProcessStep => window_processed_time_ns' = window_time_ns
       /\ ~ProcessStep => window_processed_time_ns' = window_processed_time_ns
       /\ (CriteriaStep /\ ~coco_input) =>
             (AcceptStep <=> /\ Len(window.frames) = window_size
                             /\ \/ window_processed_time_ns = None
                                \/ window_processed_time_ns < window_time_ns)]_vars

C21_Witness ==
    /\ pc = "loop"
    /\ verdict = "no_classification"
    /\ window_processed_time_ns # None
    /\ window_processed_time_ns = accepted_time_ns

\* The items a step removes from the head of a stream that were queued after
\* the last window extraction (n of them at the tail before the step).
EvictedUnseen(stream, n, after) ==
    {stream[i] : i \in (Len(stream) - n + 1)..(Len(stream) - Len(after))}

EvictedUnseenAll ==
    EvictedUnseen(frames, unseen.frames, frames')
        \cup EvictedUnseen(obj_dets, unseen.obj_dets, obj_dets')
        \cup EvictedUnseen(hand_pose_left, unseen.hand_pose_left, hand_pose_left')
        \cup EvictedUnseen(hand_pose_right, unseen.hand_pose_right, hand_pose_right')

Evicted(stream, after) == {stream[i] : i \in 1..(Len(stream) - Len(after))}

EvictedAll ==
    Evicted(frames, frames') \cup Evicted(obj_dets, obj_dets')
        \cup Evicted(hand_pose_left, hand_pose_left')
        \cup Evicted(hand_pose_right, hand_pose_right')

\* C22 as stated: every item an eviction of the loop removes was in the buffer
\* at an earlier window extraction, unless its key is older than the latest
\* frame's time less the retention.
C22_Claimed ==
    [][(EvictAcceptedStep \/ EvictRejectedStep) =>
          \A m \in EvictedUnseenAll :
              m.t < frames[Len(frames)].t - buffer_max_size_nsec]_vars

\* C22: every item the rejected path removes is older than the latest frame's
\* time less the retention; every item the accepted path removes was in the
\* buffer when the accepted window was extracted, or was queued after that
\* extraction with a key before the window's second-oldest frame (it is then
\* removed without having been in the buffer at any extraction).
C22_Eviction ==
    /\ [][(EvictRejectedStep /\ frames # <<>>) =>
            \A m \in EvictedAll :
                m.t < frames[Len(frames)].t - buffer_max_size_nsec]_vars
    /\ [][EvictAcceptedStep =>
            \A m \in EvictedUnseenAll : m.t < window.frames[2].t]_vars

\* The accepted path has removed an item queued after the extraction of the
\* window it accepted, under a retention that reaches back to the window's
\* oldest frame.
C22_Witness ==
    /\ pc = "process"
    /\ unseen.evicted > 0
    /\ frames # <<>>
    /\ window.frames[1].t >= frames[Len(frames)].t - buffer_max_size_nsec

\* ---- C23
HoldInside == hold_pc # "enter"

CallInside == cb_pc # "call"

\* C23: the calls of the buffer exclude one another (a thread inside a call
\* owns the lock, and no two threads are inside at once, so no call sees the
\* half-done effect of another); while a thread holds the buffer over
\* latest_time and clear_before no other thread's append or eviction takes
\* effect in between (the time it read is still that of the last frame when
\* it evicts); and the thread that holds the buffer is never blocked when a
\* call of its own acquires the lock again.
C23_Atomicity ==
    /\ ~(HoldInside /\ CallInside)
    /\ HoldInside => state_lock.owner = "hold"
    /\ CallInside => state_lock.owner = "call"
    /\ hold_pc \in {"clear_acquire", "clear_frames"} =>
          (frames # <<>> /\ frames[Len(frames)].t = hold_latest)
    /\ HoldInside => ENABLED HoldStep

\* The holding thread is inside clear_before, inside its `with`, with the lock
\* acquired twice, the frames evicted and the other deques not yet.
C23_Witness ==
    /\ hold_pc = "clear_rest"
    /\ state_lock = [owner |-> "hold", count |-> 2]
    /\ Len(frames) >= 2
    /\ obj_dets # <<>>

\* ---- C24
\* A message is queued; the loop is between an extraction and the end of the
\* iteration.
AppendStep == NumBuffered' > NumBuffered

WindowHeld == pc \in {"criteria", "accepted", "process"}

\* C24: once get_window has returned a window, the appends of the callbacks
\* and the clear_before of the loop leave its frames, detections and poses as
\* they were returned, up to the processing of the window.
C24_WindowSnapshot ==
    [][(WindowHeld /\ (AppendStep \/ EvictAcceptedStep)) => window' = window]_vars

\* The window in processing still has the frame and the detection that were
\* evicted from the buffer, and not the frame queued after the extraction.
C24_Witness ==
    /\ pc = "process"
    /\ Len(window.frames) = 2
    /\ window.obj_dets[1] # NoMsg
    /\ obj_dets = <<>>
    /\ Len(frames) = 2
    /\ unseen.frames = 1
    /\ frames[1] = window.frames[2]

\* ---- C25
\* C25 as stated: a detection key that was preprocessed once is never
\* preprocessed again, purged or not.
C25_Claimed == preproc_new.again = {}

\* C25: processing a window preprocesses exactly the detection keys of the
\* window that are not in the memo, each once: a key in the memo is read from
\* it; a key that was purged is preprocessed again when a later window has a
\* detection with that key.
C25_Memoization ==
    [][ProcessStep =>
          /\ \A i \in 1..Len(preproc_new'.ids) :
                /\ preproc_new'.ids[i] \notin memo_preproc_input
                /\ \A j \in 1..(i - 1) : preproc_new'.ids[j] # preproc_new'.ids[i]
          /\ InSet(slot_ids(window.obj_dets), Times) \ memo_preproc_input
                = InSet(preproc_new'.ids, Times)
          /\ preproc_new'.again = InSet(preproc_new'.ids, preproc_computed)]_vars

\* A window was processed of which a detection key, purged after an earlier
\* window, was preprocessed again; another key had been preprocessed before.
C25_Witness ==
    /\ pc = "loop"
    /\ verdict = "published"
    /\ preproc_new.again # {}
    /\ preproc_computed \ InSet(preproc_new.ids, Times) # {}

\* ---- C26
PublishedStep == ProcessStep /\ verdict' = "published"

\* C26: after a window with oldest frame time S was processed and its
\* classification published, the memo of the preprocessed detections and the
\* memo of the preprocessed poses hold no key <= S and every key > S they held
\* or were given for this window.
C26_Claimed ==
    [][PublishedStep =>
          LET S == window.frames[1].t
          IN  /\ \A k \in memo_preproc_input' : k > S
              /\ \A k \in memo_preproc_input_poses' : k > S
              /\ \A k \in memo_preproc_input \cup InSet(slot_ids(window.obj_dets), Times) :
                    k > S => k \in memo_preproc_input'
              /\ \A k \in memo_preproc_input_poses \cup InSet(window_pose_ids(window), Times) :
                    k > S => k \in memo_preproc_input_poses']_vars

\* ---- C27
\* C27 as stated: once the runtime thread is not alive, no step of a callback
\* changes the buffer or the wake event, however the callback and the thread's
\* end interleave.
C27_Claimed ==
    [][(~rt_alive /\ cb_pc' # cb_pc) => UNCHANGED <<bufvars, rt_awake_evt>>]_vars

\* C27: a callback that asks rt_alive() when the thread is not alive returns
\* at once and changes neither the buffer nor the wake event; a callback that
\* asked while the thread was alive queues its one message (and sets the wake
\* event as configured) even when the thread has ended in between.
C27_Refused ==
    /\ [][(cb_pc = "call" /\ cb_pc' # cb_pc) => rt_alive]_vars
    /\ [][(cb_pc = "call" /\ ~rt_alive /\ cb_arg' # cb_arg) =>
             UNCHANGED <<bufvars, rt_awake_evt, cb_pc>>]_vars
    /\ [][(cb_pc = "queue" /\ cb_pc' # cb_pc) =>
             /\ NumBuffered' = NumBuffered + 1
             /\ cb_pc' = "call"]_vars

\* A message was queued after the thread had ended, by a callback that had
\* found the thread alive.
C27_Witness ==
    /\ ~rt_alive
    /\ cb_pc = "call"
    /\ cb_arg.late
    /\ frames # <<>>

\* ---- C28
\* C28: queue_hand_pose of a message whose hand is 'Right' appends it to the
\* right hand stream and of one whose hand is 'Left' to the left hand stream,
\* nothing else changing; with any other hand it raises ValueError and every
\* stream of the buffer is as before.
C28_HandLabel ==
    [][op' = "queue_hand_pose" =>
          IF msg_hand' = "Right"
          THEN /\ hand_pose_right' = Append(hand_pose_right, Msg(arg', 0))
               /\ ret' = Returned(None)
               /\ UNCHANGED <<hand_msg_tolerance_nsec, frames, hand_pose_left, obj_dets>>
          ELSE IF msg_hand' = "Left"
          THEN /\ hand_pose_left' = Append(hand_pose_left, Msg(arg', 0))
               /\ ret' = Returned(None)
               /\ UNCHANGED <<hand_msg_tolerance_nsec, frames, hand_pose_right, obj_dets>>
          ELSE /\ ret' = Raised("ValueError")
               /\ UNCHANGED bufvars]_vars

\* A message of another hand was refused by a buffer that holds poses of both
\* hands.
C28_Witness ==
    /\ op = "queue_hand_pose"
    /\ msg_hand = "Other"
    /\ ret = Raised("ValueError")
    /\ hand_pose_left # <<>>
    /\ hand_pose_right # <<>>

\* ---- C29
\* C29: when the dataset is not of exactly one video the loading thread has
\* queued nothing and has cleared the active flag when it returns; from then
\* on the buffer stays empty, no window is accepted or processed, and the
\* runtime loop eventually ends.
C29_MalformedDataset ==
    /\ [](coco_pc = "aborted" =>
            /\ ~rt_active
            /\ NumBuffered = 0
            /\ coco_index = 0
            /\ pc \notin {"accepted", "process", "dead"}
            /\ accepted_time_ns = None
            /\ window_processed_time_ns = None
            /\ memo_preproc_input = {})
    /\ (coco_pc = "aborted") ~> (pc = "stopped")

\* The loading thread gave up on the dataset and the loop has ended, nothing
\* queued and nothing processed.
C29_Witness ==
    /\ coco_pc = "aborted"
    /\ pc = "stopped"
    /\ NumBuffered = 0
    /\ window_processed_time_ns = None

\* ---- C30
SlotsFilled(w) == \A i \in 1..Len(w.frames) : w.frames[i] # NoMsg /\ w.obj_dets[i] # NoMsg

\* C30: the criteria accept a window exactly when it has the configured size,
\* a new leading frame and, only with a COCO file as input, a frame and a
\* detection in every slot (the pose slots are not looked at); with a COCO
\* file no window with a missing detection is accepted or processed, without
\* one the detection slots play no part in the acceptance.
C30_Completeness ==
    /\ [][CriteriaStep =>
            (AcceptStep <=>
                /\ Len(window.frames) = window_size
                /\ (window_processed_time_ns = None
                      \/ window_processed_time_ns < window_time_ns)
                /\ (coco_input => SlotsFilled(window)))]_vars
    /\ []((coco_input /\ pc \in {"accepted", "process"}) => SlotsFilled(window))
    /\ [][(CriteriaStep /\ verdict' = "complete") => (coco_input /\ ~SlotsFilled(window))]_vars

\* With a COCO file as input a window of the right size and with a new leading
\* frame was rejected for a detection slot that is None, no pose slot being
\* filled.
C30_Witness ==
    /\ coco_input
    /\ pc = "rejected"
    /\ verdict = "complete"
    /\ Len(window.frames) = window_size
    /\ window_size >= 2
    /\ \E i \in 1..Len(window.frames) : window.obj_dets[i] # NoMsg
    /\ \E i \in 1..Len(window.frames) : window.obj_dets[i] = NoMsg

\* ---- C31
\* Where the window's oldest frame stands in the frame deque while the loop
\* holds the window: behind it come the window's other frames and what was
\* queued since the extraction.
WindowHead == Len(frames) - unseen.frames - Len(window.frames) + 1

IterationOrder ==
    (   /\ (pc = "wait" /\ rt_awake_evt /\ pc' # pc) => pc' = "get_window"
        /\ (pc = "get_window" /\ pc' # pc) =>
              /\ pc' = "criteria"
              /\ UNCHANGED <<bufvars, window_extracted_time_ns, window_processed_time_ns>>
        /\ CriteriaStep =>
              /\ pc' \in {"accepted", "rejected"}
              /\ window_extracted_time_ns' = window_time_ns
              /\ window.frames = <<>> => window_extracted_time_ns' = None
              /\ UNCHANGED <<bufvars, window_processed_time_ns>>
        /\ (pc = "accepted" /\ pc' # pc) =>
              /\ pc' = "process"
              /\ UNCHANGED <<window_extracted_time_ns, window_processed_time_ns>>
        /\ (pc = "process" /\ pc' # pc) =>
              /\ pc' = "loop"
              /\ verdict' \in {"published", "no_classification"}
              /\ window_processed_time_ns' = window_time_ns
              /\ UNCHANGED <<bufvars, window_extracted_time_ns>>
        /\ (pc = "rejected" /\ pc' # pc) =>
              /\ pc' = "loop"
              /\ UNCHANGED <<window_extracted_time_ns, window_processed_time_ns>>
        /\ window_processed_time_ns' # window_processed_time_ns => pc = "process" )

\* C32: every iteration that the wake event starts keeps this order, whatever
\* the window size and the arrivals: extraction, the extracted time recorded,
\* validation, then one of the two branches, and back to the loop head.
C32_Claimed == [][IterationOrder]_vars

\* ---- C33
\* C33: the criteria are called in the order size, new leading frame, COCO
\* input mode (the last only when reading a COCO file) and the calls stop at
\* the first that fails: what was called is a prefix of the list, every call
\* but the last passed, the list is cut short only behind a failed call, and
\* a window failing an earlier criterion never reaches a later one; the size
\* criterion hands the window to _save_image_to_coco on a size failure and on
\* nothing else; the window is accepted exactly when every criterion was
\* called and passed.
C33_ShortCircuit ==
    [][CriteriaStep =>
        LET fns == window_processing_criterion_fn_list
            called == criteria_log'.evaluated
            n == Len(called)
        IN  /\ n >= 1 /\ n <= Len(fns)
            /\ called = SubSeq(fns, 1, n)
            /\ \A i \in 1..(n - 1) : criterion(called[i], window)
            /\ n < Len(fns) => ~criterion(called[n], window)
            /\ \A i \in 1..Len(fns) :
                 ~criterion(fns[i], window) => n <= i
            /\ criteria_log'.saved <=> ~window_criterion_correct_size(window)
            /\ criteria_log'.saved => called = <<"correct_size">>
            /\ AcceptStep <=> (n = Len(fns) /\ criterion(called[n], window))
    ]_vars

\* Reading a COCO file, a full window was rejected for its leading frame; its
\* detection slots are not all filled, and the COCO criterion was not called,
\* nor was the window handed to _save_image_to_coco.
C33_Witness ==
    /\ coco_input
    /\ pc = "rejected"
    /\ verdict = "progress"
    /\ criteria_log = [evaluated |-> <<"correct_size", "new_leading_frame">>, saved |-> FALSE]
    /\ ~window_criterion_coco_input_mode(window)

\* ---- C34
\* The new-leading-frame criterion was called on the window in hand.
ProgressCalled == criteria_log.evaluated = <<"new_leading_frame">>

\* C34 as claimed: while no window has been processed, the new-leading-frame
\* criterion passes for every window, a window with no frames included.
C34_Claimed ==
    (ProgressCalled /\ window_processed_time_ns = None) => verdict = "passed"

\* C34 (amended): while no window has been processed, the new-leading-frame
\* criterion passes for every window that has a frame, whatever its leading
\* time stamp, and fails for a window with no frames (as it does whatever the
\* processed time is).
C34_FirstWindow ==
    /\ (ProgressCalled /\ window_processed_time_ns = None)
          => (verdict = "passed" <=> window.frames # <<>>)
    /\ (ProgressCalled /\ window.frames = <<>>) => verdict = "failed"

\* With no window processed, the criterion passed a window leading with the
\* earliest time stamp there is.
C34_Witness ==
    /\ ProgressCalled
    /\ window_processed_time_ns = None
    /\ Len(window.frames) = 2
    /\ window.frames[1].t = MaxTime
    /\ window.frames[2].t = 0
    /\ verdict = "passed"

\* ---- C35
\* The wait of the loop ends by timeout: the wake event is not set.
HeartbeatStep == pc = "wait" /\ ~rt_awake_evt /\ pc' # pc

\* C35: an iteration whose wait times out extracts no window, pops nothing
\* from the buffer, writes neither the extracted nor the processed time (nor
\* anything else of the node but the loop's position), and goes to the loop
\* head, whose next step reads the active flag and nothing more: it waits
\* again or ends the loop.
C35_Heartbeat ==
    [][ /\ HeartbeatStep =>
              /\ pc' = "loop"
              /\ UNCHANGED <<bufvars, window, window_time_ns, window_extracted_time_ns,
                             window_processed_time_ns, accepted_time_ns, memovars,
                             rt_active, rt_awake_evt, unseen, verdict, criteria_log>>
        /\ (pc = "loop" /\ pc' # pc) =>
              /\ pc' = IF rt_active THEN "wait" ELSE "stopped"
              /\ UNCHANGED <<bufvars, window, window_time_ns, window_extracted_time_ns,
                             window_processed_time_ns, rt_active, rt_awake_evt>> ]_vars

\* Back at the loop head after a timeout, with frames buffered that the
\* retention bound does not cover, and windows extracted and processed before.
C35_Witness ==
    /\ pc = "loop"
    /\ verdict = "none"
    /\ ~rt_awake_evt
    /\ window_extracted_time_ns # None
    /\ window_processed_time_ns # None
    /\ Len(frames) >= 2
    /\ frames[1].t < frames[Len(frames)].t - buffer_max_size_nsec

\* ---- C36
\* C36: for every window size and every sequence of arrivals the runtime
\* thread never ends in an uncaught error; it ends only with the active flag
\* cleared; and a window that passed the criteria has a second-oldest frame
\* for the eviction bound.
C36_Claimed ==
    /\ pc # "dead"
    /\ pc = "stopped" => ~rt_active
    /\ pc = "accepted" => Len(window.frames) >= 2

\* ---- C37
\* C37: neither eviction of the loop pops the most recently queued frame, on
\* the accepted path (bound: the window's second-oldest frame) or on the
\* rejected path (bound: the latest frame's time less the retention), so a
\* frame deque that holds a frame holds one in every later state, and its
\* last frame changes only by a callback's append.
C37_FramesKept ==
    [][ /\ ((EvictAcceptedStep \/ EvictRejectedStep) /\ frames # <<>>) =>
              /\ frames' # <<>>
              /\ frames'[Len(frames')] = frames[Len(frames)]
              /\ \E k \in 0..(Len(frames) - 1) : frames' = SubSeq(frames, k + 1, Len(frames))
        /\ frames # <<>> => frames' # <<>> ]_vars

\* The window 0, 2 was accepted and the eviction to its second-oldest frame
\* left the latest frame alone in the deque.
C37_Witness ==
    /\ pc = "process"
    /\ window_size = 2
    /\ TimesOf(window.frames) = <<0, 2>>
    /\ TimesOf(frames) = <<2>>

\* ---- C38
\* The extraction step of the loop.
ExtractStep == pc = "get_window" /\ pc' = "criteria"

\* The callback sets the wake event only in its second statement, the frame
\* queued by its first; and a set event is cleared by nothing but the loop's
\* wait, so one set while the loop is busy is still set when it waits again.
WakeOrder ==
    [][ /\ (cb_pc' # cb_pc /\ rt_awake_evt' /\ ~rt_awake_evt) =>
              (cb_pc = "second" /\ frames' = frames)
        /\ (rt_awake_evt /\ ~rt_awake_evt') => (pc = "wait" /\ pc' = "get_window") ]_vars

\* A frame queued since the loop last extracted is followed by an extraction,
\* unless the thread has ended.
WakeFollows ==
    (unseen.frames > 0) ~> (unseen.frames = 0 \/ ~rt_alive)

\* C38 as claimed: the order, the retention of the event, the extraction that
\* follows, and that extraction finds every frame queued since the extraction
\* before it: none of them was evicted in between.
C38_Claimed ==
    /\ WakeOrder
    /\ WakeFollows
    /\ [][ExtractStep => unseen.evicted = 0]_vars

\* C38 (amended): the order, the retention of the event, and the extraction
\* that follows every queued frame while the thread runs; that extraction
\* has in its window the frames queued since the extraction before it that
\* are still buffered and among the last window_size frames: the most
\* recently queued one always, an earlier one only if the rejected path's
\* eviction in between did not pop it and no more than window_size - 1 frames
\* were queued after it.
C38_NoLostWakeup ==
    /\ WakeOrder
    /\ WakeFollows
    /\ [][(ExtractStep /\ unseen.frames > 0) =>
             LET n == Min2(unseen.frames, window_size)
             IN  /\ Len(window'.frames) >= n
                 /\ SubSeq(window'.frames, Len(window'.frames) - n + 1, Len(window'.frames))
                       = SubSeq(frames, Len(frames) - n + 1, Len(frames))]_vars

\* A window leading with the frame stamped 1 was processed; the frame
\* stamped 2 queued since then has been followed by an extraction, whose
\* window ends with it.
C38_Witness ==
    /\ pc = "criteria"
    /\ window_processed_time_ns # None
    /\ window_size = 2
    /\ TimesOf(window.frames) = <<1, 2>>
    /\ window_processed_time_ns = 1
    /\ cb_pc = "call"
    /\ ~rt_awake_evt

\* ---- C39
\* The call put one message stamped t at the tail of d and nothing else.
QueuedAtTail(d, d_after, t) ==
    /\ Len(d_after) = Len(d) + 1
    /\ SubSeq(d_after, 1, Len(d)) = d
    /\ d_after[Len(d_after)].t = t

\* The call took messages from the head of d and nothing else.
HeadRemoved(d, d_after) == \E k \in 0..Len(d) : d_after = SubSeq(d, k + 1, Len(d))

\* What the calls other than queue_hand_pose do to the deques.
OtherCallsFrame ==
    /\ op' = "queue_image" =>
          /\ QueuedAtTail(frames, frames', arg')
          /\ UNCHANGED <<hand_pose_left, hand_pose_right, obj_dets>>
    /\ op' = "queue_object_detections" =>
          /\ QueuedAtTail(obj_dets, obj_dets', arg')
          /\ UNCHANGED <<frames, hand_pose_left, hand_pose_right>>
    /\ op' \in {"get_window", "get_window_detections", "get_frame_time"} =>
          UNCHANGED <<frames, hand_pose_left, hand_pose_right, obj_dets>>
    /\ op' = "clear_before" =>
          /\ HeadRemoved(frames, frames')
          /\ HeadRemoved(hand_pose_left, hand_pose_left')
          /\ HeadRemoved(hand_pose_right, hand_pose_right')
          /\ HeadRemoved(obj_dets, obj_dets')

\* C39 as claimed: every queue_* call, queue_hand_pose with any message
\* included, adds one message at the tail of its stream and leaves the other
\* streams and the messages already there as they were; the reading calls
\* leave every stream unchanged; clear_before only removes from the heads.
C39_Claimed ==
    [][ /\ OtherCallsFrame
        /\ op' = "queue_hand_pose" =>
              /\ UNCHANGED <<frames, obj_dets>>
              /\ \/ /\ QueuedAtTail(hand_pose_left, hand_pose_left', arg')
                    /\ UNCHANGED hand_pose_right
                 \/ /\ QueuedAtTail(hand_pose_right, hand_pose_right', arg')
                    /\ UNCHANGED hand_pose_left ]_vars

\* C39 (amended): queue_image and queue_object_detections add one message at
\* the tail of their stream, and queue_hand_pose at the tail of the stream of
\* the message's hand, Left or Right, each leaving the other streams and the
\* messages already there as they were; queue_hand_pose with any other hand
\* raises ValueError and leaves every stream unchanged; the reading calls
\* leave every stream unchanged; clear_before only removes from the heads.
C39_FrameConditions ==
    [][ /\ OtherCallsFrame
        /\ op' = "queue_hand_pose" =>
              /\ UNCHANGED <<frames, obj_dets>>
              /\ msg_hand' = "Left" =>
                    /\ QueuedAtTail(hand_pose_left, hand_pose_left', arg')
                    /\ UNCHANGED hand_pose_right
              /\ msg_hand' = "Right" =>
                    /\ QueuedAtTail(hand_pose_right, hand_pose_right', arg')
                    /\ UNCHANGED hand_pose_left
              /\ msg_hand' \notin {"Left", "Right"} =>
                    /\ ret' = Raised("ValueError")
                    /\ UNCHANGED <<hand_pose_left, hand_pose_right>> ]_vars

\* A frame stamped before the one already buffered was queued behind it, the
\* detections buffered before it untouched.
C39_Witness ==
    /\ op = "queue_image"
    /\ arg = 0
    /\ TimesOf(frames) = <<2, 0>>
    /\ Len(obj_dets) = 1

\* ---- C40
\* The keys of an id heap are those of its map, each once.
HeapIndexesMap(memo, heap) ==
    /\ {heap[i] : i \in 1..Len(heap)} = memo
    /\ \A i, j \in 1..Len(heap) : i # j => heap[i] # heap[j]

\* C40: in every state, for each memo of _process_window (the preprocessed
\* detections, the preprocessed poses, the features) the ids on its heap are
\* the keys of its map, each once; so the expiry, which deletes from the map
\* what it pops from the heap, never pops an id the map lacks, and no key of
\* a map is missing from its heap.
C40_MemoIndex ==
    /\ HeapIndexesMap(memo_preproc_input, memo_preproc_input_id_heap)
    /\ HeapIndexesMap(memo_preproc_input_poses, memo_preproc_input_id_heap_poses)
    /\ HeapIndexesMap(memo_objects_to_feats, memo_objects_to_feats_id_heap)
    /\ verdict # "KeyError"
    /\ pc # "dead" \/ window_size = 1

\* A window was published and the expiry popped the id of a detection set
\* preprocessed before, another id staying memoized.
C40_Witness ==
    /\ verdict = "published"
    /\ memo_preproc_input # {}
    /\ preproc_computed \ memo_preproc_input # {}

============================================================================
